---- MODULE Spec2Model ----
(***************************************************************************)
(* Model of the datalad-catalog construction engine                        *)
(* (src/datalad_catalog/webui_generate.py): blob keys, the tree merge of   *)
(* file and subdataset leaves, and the ingestion run datalad_catalog().    *)
(*                                                                         *)
(* Conventions.  A Python str is a sequence of one-character strings, so   *)
(* that split, strip, concatenation and length are computed as the code    *)
(* computes them; "" is << >>.  A Python dict is a function whose domain   *)
(* is its key set: `k in d` is k \in DOMAIN d.  A Python list is a         *)
(* sequence.  Python's 0-based index with -1 for "not found" is a 1-based  *)
(* index with 0 for "not found".                                           *)
(***************************************************************************)
EXTENDS Integers, Sequences, FiniteSets, TLC

VARIABLES
    \* tree merge engine, one leaf at a time
    tree0,        \* dataset_object["children"] before the first merge
    tree,         \* dataset_object["children"] now
    merged,       \* the leaf records merged so far
    nmerged,      \* number of merges performed
    \* blob keys
    keyIn,        \* two (identifier, version, children) argument triples
    keyOut,       \* the two md5blob results, or << >> before the call
    \* the output directory
    metadata_dir, \* <out_dir>/metadata exists
    disk,         \* blob hash -> document of <out_dir>/metadata/<hash>.json
    super_json,   \* << >>, or <<document>> of <out_dir>/metadata/super.json
    ui_content,   \* assets, artwork and index.html exist under out_dir
    \* the runs of datalad_catalog(), per process
    pc,           \* position of the run
    metadata,     \* argument: the batch of records
    set_super,    \* argument
    new_obj,      \* the dataset object in memory
    nruns,        \* runs started
    printed,      \* messages that the run printed to standard output
    results,      \* status records that Catalog.__call__ yielded for the run
    \* history, per process
    pre,          \* the output directory as it was when the run started
    loaded,       \* the document that get_dataset_object returned to the run
    writer,       \* blob hash -> the process that wrote the document last
    prev,         \* batch and outcome of the run before the current one
    \* Add.__call__ (src/datalad_catalog/add.py)
    add_metadata, \* argument: the items of the metadata stream
    add_i,        \* the counter i: items taken from the stream
    add_log,      \* yielded status records and calls of write_nodes_to_files,
                  \* in the order they happened
    add_pc,       \* "loop", "returned", or "raised"
    \* one call of a translation function
    callee,       \* the name of the function, or "" when there is none
    call_args,    \* the arguments of the call
    call_result   \* << >> before the call, then <<the value it returned>>

treeVars == <<tree0, tree, merged, nmerged>>
keyVars  == <<keyIn, keyOut>>
outVars  == <<metadata_dir, disk, super_json, ui_content>>
runVars  == <<pc, metadata, set_super, new_obj, nruns, printed, results,
              pre, loaded, writer, prev>>
addVars  == <<add_metadata, add_i, add_log, add_pc>>
callVars == <<callee, call_args, call_result>>
vars     == <<tree0, tree, merged, nmerged, keyIn, keyOut,
              metadata_dir, disk, super_json, ui_content,
              pc, metadata, set_super, new_obj, nruns, printed, results,
              pre, loaded, writer, prev,
              add_metadata, add_i, add_log, add_pc,
              callee, call_args, call_result>>

----------------------------------------------------------------------------
(* Bounds *)

MaxDepth  == 3   \* longest path, in segments
MaxLeaves == 2   \* merges per behaviour of the tree specification
MaxRuns   == 2   \* runs of datalad_catalog() per process

----------------------------------------------------------------------------
(* Strings *)

Range(s) == {s[i] : i \in 1..Len(s)}

\* str.split(sep) for a one-character separator: always at least one
\* segment, empty segments are kept.
RECURSIVE SplitFrom(_, _, _, _)
SplitFrom(s, sep, i, cur) ==
    IF i > Len(s) THEN <<cur>>
    ELSE IF s[i] = sep THEN <<cur>> \o SplitFrom(s, sep, i + 1, <<>>)
    ELSE SplitFrom(s, sep, i + 1, Append(cur, s[i]))

SplitNoSep(s, sep) == <<s>>

Split(s, sep) == SplitFrom(s, sep, 1, <<>>)

\* sep.join(segs)
RECURSIVE Join(_, _)
Join(segs, sep) ==
    IF Len(segs) = 0 THEN <<>>
    ELSE IF Len(segs) = 1 THEN segs[1]
    ELSE segs[1] \o <<sep>> \o Join(Tail(segs), sep)

----------------------------------------------------------------------------
(* Blob keys *)

DashChildren == <<"-", "c", "h", "i", "l", "d", "r", "e", "n">>

\* hashlib.md5(...).hexdigest(), taken to be injective: the digest is
\* identified by the string that was hashed.
md5hex(blob_string) == [md5 |-> blob_string]

md5blob_norole(identifier, version, children) ==
    md5hex(identifier \o <<"-">> \o version)

md5blob(identifier, version, children) ==
    LET blob_string == identifier \o <<"-">> \o version
    IN  md5hex(IF children THEN blob_string \o DashChildren ELSE blob_string)

----------------------------------------------------------------------------
(* Tree merge engine *)

\* next((i for i, item in enumerate(iter_object)
\*       if item["type"] == ty and item["name"] == node), -1)
RECURSIVE FirstIdx(_, _, _, _)
FirstIdx(iter_object, ty, node, i) ==
    IF i > Len(iter_object) THEN 0
    ELSE IF iter_object[i].type = ty /\ iter_object[i].name = node THEN i
    ELSE FirstIdx(iter_object, ty, node, i + 1)

\* lookup of a directory level
dir_idx_found(iter_object, node) == FirstIdx(iter_object, "directory", node, 1)

leaf_idx_anytype(iter_object, ty, node) ==
    LET found == {i \in 1..Len(iter_object) : iter_object[i].name = node}
    IN  IF found = {} THEN 0 ELSE CHOOSE i \in found : \A j \in found : i <= j

leaf_idx_anyname(iter_object, ty, node) ==
    LET found == {i \in 1..Len(iter_object) : iter_object[i].type = ty}
    IN  IF found = {} THEN 0 ELSE CHOOSE i \in found : \A j \in found : i <= j

leaf_idx_never(iter_object, ty, node) == 0

\* lookup of the last segment: ty is "file" or "dataset"
leaf_idx_found(iter_object, ty, node) == FirstIdx(iter_object, ty, node, 1)

new_directory(node) ==
    [type |-> "directory", name |-> node, children |-> <<>>]

\* The walk over the segments nodes[n..] of one leaf, from the children
\* list iter_object: the loop body of add_update_files and of
\* add_update_subdatasets, which differ only in the leaf node.
RECURSIVE walk(_, _, _, _)
walk_insert_first(iter_object, nodes, n, leaf) ==
    IF n = Len(nodes)
    THEN IF leaf_idx_found(iter_object, leaf.type, nodes[n]) = 0
         THEN <<leaf>> \o iter_object
         ELSE iter_object
    ELSE LET idx_found == dir_idx_found(iter_object, nodes[n])
             with_dir  == IF idx_found = 0
                          THEN Append(iter_object, new_directory(nodes[n]))
                          ELSE iter_object
             idx       == IF idx_found = 0 THEN Len(with_dir) ELSE idx_found
         IN  [with_dir EXCEPT ![idx].children = walk(@, nodes, n + 1, leaf)]

walk(iter_object, nodes, n, leaf) ==
    IF n = Len(nodes)
    THEN IF leaf_idx_found(iter_object, leaf.type, nodes[n]) = 0
         THEN Append(iter_object, leaf)
         ELSE iter_object
    ELSE LET idx_found == dir_idx_found(iter_object, nodes[n])
             with_dir  == IF idx_found = 0
                          THEN Append(iter_object, new_directory(nodes[n]))
                          ELSE iter_object
             idx       == IF idx_found = 0 THEN Len(with_dir) ELSE idx_found
         IN  [with_dir EXCEPT ![idx].children = walk(@, nodes, n + 1, leaf)]

\* the file node built at the last segment
new_file_node(file, node) ==
    LET em == file.extracted_metadata
    IN  [type |-> "file",
         name |-> node,
         contentbytesize |-> IF "contentbytesize" \in DOMAIN em
                             THEN em["contentbytesize"] ELSE -1,
         url |-> IF "distribution" \in DOMAIN em
                    /\ "url" \in DOMAIN em["distribution"]
                 THEN em["distribution"]["url"] ELSE <<>>]

\* the subdataset node built at the last segment
new_subds_node(subds, node) ==
    [type |-> "dataset",
     name |-> node,
     dataset_id |-> subds.dataset_id,
     dataset_version |-> subds.dataset_version]

\* add_update_files on the children list
RECURSIVE add_update_files(_, _)
add_update_files(children, files) ==
    IF Len(files) = 0 THEN children
    ELSE LET file  == Head(files)
             nodes == Split(file.path, "/")
         IN  add_update_files(
                 walk(children, nodes, 1, new_file_node(file, nodes[Len(nodes)])),
                 Tail(files))

\* add_update_subdatasets on the children list
RECURSIVE add_update_subdatasets(_, _)
add_update_subdatasets(children, subdatasets) ==
    IF Len(subdatasets) = 0 THEN children
    ELSE LET subds == Head(subdatasets)
             nodes == subds.dirs_from_path
         IN  add_update_subdatasets(
                 walk(children, nodes, 1, new_subds_node(subds, nodes[Len(nodes)])),
                 Tail(subdatasets))

----------------------------------------------------------------------------
(* Dictionaries and JSON values *)

EmptyDict == [k \in {} |-> <<>>]

\* d[k] = v
Put(d, k, v) == (k :> v) @@ d

\* A value that is a list at one time and a str at another carries its
\* Python type: the "children" of a dataset object.
JList(l) == [t |-> "list", v |-> l]
JStr(x)  == [t |-> "str", v |-> x]

\* str.strip(chars): leading and trailing characters of the set are removed
RECURSIVE LStrip(_, _)
LStrip(s, chars) ==
    IF Len(s) > 0 /\ s[1] \in chars THEN LStrip(Tail(s), chars) ELSE s

RECURSIVE RStrip(_, _)
RStrip(s, chars) ==
    IF Len(s) > 0 /\ s[Len(s)] \in chars
    THEN RStrip(SubSeq(s, 1, Len(s) - 1), chars) ELSE s

Strip(s, chars) == RStrip(LStrip(s, chars), chars)

STRIPDATALAD == <<"d", "a", "t", "a", "l", "a", "d", ":">>

----------------------------------------------------------------------------
(* Translation of dataset-level records *)

\* templates/core_dataset_schema.json, core_schema_for_dataset.json and
\* core_schema_for_file.json:
\* canonical key -> key of the source record
core_dataset_schema ==
    [type |-> "type", dataset_id |-> "dataset_id",
     dataset_version |-> "dataset_version", dataset_path |-> "dataset_path",
     extraction_time |-> "extraction_time"]

core_schema_for_dataset ==
    [type |-> "type", dataset_id |-> "dataset_id",
     dataset_version |-> "dataset_version", dataset_path |-> "dataset_path",
     extraction_time |-> "extraction_time"]

core_schema_for_file ==
    [type |-> "type", dataset_id |-> "dataset_id",
     dataset_version |-> "dataset_version", path |-> "path",
     extraction_time |-> "extraction_time"]

\* templates/studyminimeta_empty.json: every canonical field with its default
studyminimeta_empty ==
    [name |-> <<>>, short_name |-> <<>>, description |-> <<>>, url |-> <<>>,
     authors |-> <<>>, keywords |-> <<>>, publications |-> <<>>]

schema_copy_keep_existing(src_object, dest_object, schema) ==
    LET copied == {key \in DOMAIN schema : schema[key] \in DOMAIN src_object}
    IN  [key \in DOMAIN dest_object \cup copied |->
            IF key \in DOMAIN dest_object
            THEN dest_object[key] ELSE src_object[schema[key]]]

\* for key in schema: if schema[key] in src_object: dest[key] = src[schema[key]]
schema_copy(src_object, dest_object, schema) ==
    LET copied == {key \in DOMAIN schema : schema[key] \in DOMAIN src_object}
    IN  [key \in DOMAIN dest_object \cup copied |->
            IF key \in copied THEN src_object[schema[key]] ELSE dest_object[key]]

core_dataset_parse(src_object, dest_object, schema) ==
    schema_copy(src_object, dest_object, schema)

\* next((item for item in seq if P(item)), False): << >> stands for False
RECURSIVE FirstItem(_, _, _)
FirstItem(seq, key, val) ==
    IF Len(seq) = 0 THEN <<>>
    ELSE IF key \in DOMAIN Head(seq) /\ Head(seq)[key] = val THEN <<Head(seq)>>
    ELSE FirstItem(Tail(seq), key, val)

\* the url of the distribution named "origin" of the Dataset graph item
origin_url(src_object, dest_object) ==
    LET found == FirstItem(src_object["extracted_metadata"]["@graph"],
                           "@type", "Dataset")
    IN  IF Len(found) = 1 /\ "distribution" \in DOMAIN found[1]
        THEN LET origin == FirstItem(found[1]["distribution"], "name", "origin")
             IN  IF Len(origin) = 1
                 THEN Put(dest_object, "url", origin[1]["url"])
                 ELSE dest_object
        ELSE dest_object

\* one entry of hasPart as a subdataset reference
sub_dict(subds) ==
    [dataset_id      |-> Strip(subds["identifier"], Range(STRIPDATALAD)),
     dataset_version |-> Strip(subds["@id"], Range(STRIPDATALAD)),
     dataset_path    |-> subds["name"],
     dirs_from_path  |-> Split(subds["name"], "/")]

core_parse_dataset(src_object, dest_object, schema) ==
    LET copied == origin_url(src_object,
                             schema_copy(src_object, dest_object, schema))
        found  == FirstItem(src_object["extracted_metadata"]["@graph"],
                            "@type", "Dataset")
        parts  == IF Len(found) = 1 /\ "hasPart" \in DOMAIN found[1]
                  THEN found[1]["hasPart"] ELSE <<>>
    IN  Put(copied, "subdatasets",
            [i \in 1..Len(parts) |-> sub_dict(parts[i])])

core_parse_file(src_object, dest_object, schema) ==
    origin_url(src_object, schema_copy(src_object, dest_object, schema))

\* templates/studyminimeta_schema.json: canonical key -> a two-level path
\* [object, key] into the objects of the graph, or a literal value
studyminimeta_schema ==
    [name         |-> <<"study", "name">>,
     description  |-> <<"dataset", "description">>,
     url          |-> <<"dataset", "url">>,
     keywords     |-> <<"dataset", "keywords">>,
     authors      |-> <<>>,
     publications |-> <<>>]

\* The objects of the graph that studyminimeta_parse works on.  << >> stands
\* for False (not found), <<v>> for the value found.
study_objects(src_object) ==
    LET graph == src_object["extracted_metadata"]["@graph"]
        pubs  == FirstItem(graph, "@id", "#publicationList")
        pers  == FirstItem(graph, "@id", "#personList")
    IN  [study   |-> FirstItem(graph, "@type", "CreativeWork"),
         dataset |-> FirstItem(graph, "@type", "Dataset"),
         publicationList |-> IF Len(pubs) = 1 THEN <<pubs[1]["@list"]>> ELSE <<>>,
         personList      |-> IF Len(pers) = 1 THEN <<pers[1]["@list"]>> ELSE <<>>]

IsPath(entry) == Len(entry) = 2

\* lines 775-781
study_copy(md, dest_object, schema) ==
    LET copied == {key \in DOMAIN schema :
                      \/ ~IsPath(schema[key])
                      \/ /\ schema[key][1] \in DOMAIN md
                         /\ schema[key][2] \in DOMAIN md[schema[key][1]][1]}
    IN  [key \in DOMAIN dest_object \cup copied |->
            IF key \in copied
            THEN IF IsPath(schema[key])
                 THEN md[schema[key][1]][1][schema[key][2]]
                 ELSE schema[key]
            ELSE dest_object[key]]

\* str.replace('<', '') and str.replace('>', '')
sanitize(text) == SelectSeq(text, LAMBDA c : c \notin {"<", ">"})

\* the persons that the references resolve to, unresolved references left out
RECURSIVE resolved_authors(_, _)
resolved_authors(refs, persons) ==
    IF Len(refs) = 0 THEN <<>>
    ELSE LET author_details == FirstItem(persons, "@id", Head(refs)["@id"])
         IN  author_details \o resolved_authors(Tail(refs), persons)

\* new_pub["author"][i] = author_details for the references that resolve;
\* the others stay as they are
inlined_authors(refs, persons) ==
    [i \in 1..Len(refs) |->
        LET author_details == FirstItem(persons, "@id", refs[i]["@id"])
        IN  IF Len(author_details) = 1 THEN author_details[1] ELSE refs[i]]

renamed(key) ==
    IF key = "@type" THEN "type" ELSE IF key = "sameAs" THEN "doi" ELSE key

\* lines 798-816: one entry of the publication list.  The copy under
\* "publication" shares the author list with the entry itself.
new_publication(pub, persons) ==
    LET keys    == {renamed(k) : k \in DOMAIN pub}
        source(k) == CHOOSE o \in DOMAIN pub :
                        /\ renamed(o) = k
                        /\ (o = k \/ k \notin DOMAIN pub \/ k = "type" \/ k = "doi")
        new_pub == [k \in keys |->
                       IF k = "author" THEN inlined_authors(pub["author"], persons)
                       ELSE pub[source(k)]]
        inner   == [k \in keys \ {"@id"} |-> new_pub[k]]
    IN  [k \in (keys \ {"@id"}) \cup {"publication"} |->
            IF k = "publication" THEN inner ELSE new_pub[k]]

\* an exception of studyminimeta_parse: False is subscripted or iterated, or
\* a key is missing
studyminimeta_raises(src_object, dest_object, schema) ==
    \/ "extracted_metadata" \notin DOMAIN src_object
    \/ "@graph" \notin DOMAIN src_object["extracted_metadata"]
    \/ LET md == study_objects(src_object)
       IN  \/ \E key \in DOMAIN schema :
                 /\ IsPath(schema[key])
                 /\ schema[key][1] \in DOMAIN md
                 /\ Len(md[schema[key][1]]) = 0
           \/ "description" \notin DOMAIN study_copy(md, dest_object, schema)
           \/ Len(md["dataset"]) = 0
           \/ "author" \notin DOMAIN md["dataset"][1]
           \/ /\ Len(md["dataset"][1]["author"]) > 0
              /\ Len(md["personList"]) = 0
           \/ /\ "authors" \notin DOMAIN study_copy(md, dest_object, schema)
              /\ Len(resolved_authors(md["dataset"][1]["author"],
                                      md["personList"][1])) > 0
           \/ /\ Len(md["publicationList"]) = 1
              /\ \E i \in 1..Len(md["publicationList"][1]) :
                    \/ "author" \notin DOMAIN md["publicationList"][1][i]
                    \/ /\ Len(md["publicationList"][1][i]["author"]) > 0
                       /\ Len(md["personList"]) = 0
                    \/ "publications" \notin
                           DOMAIN study_copy(md, dest_object, schema)

studyminimeta_parse(src_object, dest_object, schema) ==
    LET md      == study_objects(src_object)
        copied  == study_copy(md, dest_object, schema)
        persons == IF Len(md["personList"]) = 1 THEN md["personList"][1] ELSE <<>>
        pubs    == IF Len(md["publicationList"]) = 1
                   THEN md["publicationList"][1] ELSE <<>>
    IN  [copied EXCEPT
            !["description"] = sanitize(@),
            !["authors"] = @ \o resolved_authors(md["dataset"][1]["author"], persons),
            !["publications"] =
                @ \o [i \in 1..Len(pubs) |-> new_publication(pubs[i], persons)]]

\* an exception of core_parse_dataset and core_parse_file
core_raises(src_object) ==
    \/ "extracted_metadata" \notin DOMAIN src_object
    \/ "@graph" \notin DOMAIN src_object["extracted_metadata"]

\* the translation of the record raises
parse_raises(src_object, dest_object) ==
    \/ /\ src_object["extractor_name"] = "metalad_studyminimeta"
       /\ studyminimeta_raises(src_object, dest_object, studyminimeta_schema)
    \/ /\ src_object["extractor_name"] = "metalad_core"
       /\ src_object["type"] \in {"dataset", "file"}
       /\ core_raises(src_object)

\* dispatch on the extractor name; an unmatched name leaves dest_object as
\* it is
parse_metadata_object(src_object, dest_object) ==
    IF src_object["extractor_name"] = "metalad_core_dataset"
    THEN core_dataset_parse(src_object, dest_object, core_dataset_schema)
    ELSE IF src_object["extractor_name"] = "metalad_studyminimeta"
    THEN studyminimeta_parse(src_object, dest_object, studyminimeta_schema)
    ELSE IF src_object["extractor_name"] = "metalad_core"
            /\ src_object["type"] = "dataset"
    THEN core_parse_dataset(src_object, dest_object, core_schema_for_dataset)
    ELSE IF src_object["extractor_name"] = "metalad_core"
            /\ src_object["type"] = "file"
    THEN core_parse_file(src_object, dest_object, core_schema_for_file)
    ELSE dest_object


Ellipsis_two == <<".", ".">>

Ellipsis == <<".", ".", ".">>
ShortNameLen == 30

add_missing_fields(dataset_object) ==
    LET named == IF "name" \notin DOMAIN dataset_object
                    /\ "dataset_path" \in DOMAIN dataset_object
                 THEN LET segs == Split(dataset_object["dataset_path"], "/")
                      IN  Put(dataset_object, "name", segs[Len(segs)])
                 ELSE dataset_object
        short == IF "name" \in DOMAIN named /\ "short_name" \notin DOMAIN named
                 THEN Put(named, "short_name",
                          IF Len(named["name"]) > ShortNameLen
                          THEN SubSeq(named["name"], 1, ShortNameLen) \o Ellipsis
                          ELSE named["name"])
                 ELSE named
        filled == short @@ studyminimeta_empty
        withch == IF "children" \notin DOMAIN filled
                  THEN Put(filled, "children", JList(<<>>)) ELSE filled
    IN  IF "subdatasets" \notin DOMAIN withch
        THEN Put(withch, "subdatasets", <<>>) ELSE withch

----------------------------------------------------------------------------
(* The ingestion run *)

\* one key of options_dict: the items that have the key with that value
filter_key_only(metadata_list, key, val) ==
    SelectSeq(metadata_list, LAMBDA item : key \in DOMAIN item)

filter_one(metadata_list, key, val) ==
    SelectSeq(metadata_list,
              LAMBDA item : key \in DOMAIN item /\ item[key] = val)

filter_first_option(metadata_list, options) ==
    IF Len(options) = 0 THEN metadata_list
    ELSE filter_one(metadata_list, Head(options)[1], Head(options)[2])

\* options is the sequence of the (key, value) pairs of options_dict
RECURSIVE filter_metadata_objects(_, _)
filter_metadata_objects(metadata_list, options) ==
    IF Len(options) = 0 THEN metadata_list
    ELSE filter_metadata_objects(
             filter_one(metadata_list, Head(options)[1], Head(options)[2]),
             Tail(options))

dataset_records(batch) ==
    filter_metadata_objects(batch, << <<"type", "dataset">> >>)

unique_blobs(datasets) ==
    {md5blob(datasets[i]["dataset_id"], datasets[i]["dataset_version"], FALSE) :
        i \in 1..Len(datasets)}

\* The content of a file that is not a JSON document: a file that
\* open(file, 'w') truncated and nothing was written to, and a file that
\* holds the first part of what json.dump was writing.
EmptyFile == [not_json |-> "empty"]
PartialFile == [not_json |-> "partial"]

\* json.load reads the content
IsJSON(content) == "not_json" \notin DOMAIN content

MsgUnexpected == "Unexpected error:"

\* get_dataset_object: the stored document, or an empty object
get_dataset_object(dataset_id, dataset_version, files) ==
    LET blob_hash == md5blob(dataset_id, dataset_version, FALSE)
    IN  IF blob_hash \in DOMAIN files THEN files[blob_hash] ELSE EmptyDict

\* The loop of process_dataset over the dataset-level records.  The result
\* is [ok |-> TRUE, obj |-> the object], or ok is FALSE when a translation
\* raised.
Returned(obj) == [ok |-> TRUE, obj |-> obj]
Raised == [ok |-> FALSE, obj |-> EmptyDict]

RECURSIVE parse_all(_, _)
parse_all(datasets, obj) ==
    IF Len(datasets) = 0 THEN Returned(obj)
    ELSE IF "extractor_name" \notin DOMAIN Head(datasets)
    THEN parse_all(Tail(datasets), obj)
    ELSE IF parse_raises(Head(datasets), obj) THEN Raised
    ELSE parse_all(Tail(datasets), parse_metadata_object(Head(datasets), obj))

\* one of the branches of parse_metadata_object matches the record
recognized(src_object) ==
    \/ src_object["extractor_name"]
           \in {"metalad_core_dataset", "metalad_studyminimeta"}
    \/ /\ src_object["extractor_name"] = "metalad_core"
       /\ src_object["type"] \in {"dataset", "file"}

MsgNonDataLad == "Unrecognized metadata type: non-DataLad"
MsgDataLadRelated == "Unrecognized metadata type: DataLad-related"
MsgSuper == "Super dataset specified, creating entry"
MsgMultiple == "Error: dataset-level metadata items found for multiple source datasets"

\* what the loop of process_dataset and the else branch of
\* parse_metadata_object print, up to the record whose translation raises
RECURSIVE parse_prints(_, _)
parse_prints(datasets, obj) ==
    IF Len(datasets) = 0 THEN <<>>
    ELSE IF "extractor_name" \notin DOMAIN Head(datasets)
    THEN <<MsgNonDataLad>> \o parse_prints(Tail(datasets), obj)
    ELSE IF parse_raises(Head(datasets), obj) THEN <<>>
    ELSE (IF recognized(Head(datasets)) THEN <<>> ELSE <<MsgDataLadRelated>>)
         \o parse_prints(Tail(datasets),
                         parse_metadata_object(Head(datasets), obj))

process_dataset(datasets, files) ==
    LET parsed == parse_all(datasets,
                            get_dataset_object(datasets[1]["dataset_id"],
                                               datasets[1]["dataset_version"],
                                               files))
    IN  IF parsed.ok THEN Returned(add_missing_fields(parsed.obj)) ELSE Raised

main_dataset_files(batch, datasets) ==
    filter_metadata_objects(batch,
        << <<"type", "file">>,
           <<"dataset_id", datasets[1]["dataset_id"]>>,
           <<"dataset_version", datasets[1]["dataset_version"]>> >>)

\* a file record lacks a key that add_update_files subscripts (KeyError)
FileKeyError(files) ==
    \E i \in 1..Len(files) :
        \/ "path" \notin DOMAIN files[i]
        \/ "extracted_metadata" \notin DOMAIN files[i]

\* The walk enumerates the children of the dataset object and subscripts
\* every item with "type".  When the children are a str (the 32 characters
\* of a hex digest) the items are characters and the first subscript raises
\* TypeError.
TypeErrorIn(children, leaves) == children.t = "str" /\ Len(leaves) > 0

merge_leaves_nofiles(obj, files) == obj

\* lines 209-223: the dataset object after the subdatasets and the files of
\* the batch were merged into its children
merge_leaves(obj, files) ==
    LET subs   == obj["subdatasets"]
        withsd == IF Len(subs) > 0
                  THEN JList(add_update_subdatasets(obj["children"].v, subs))
                  ELSE obj["children"]
    IN  Put(obj, "children",
            IF Len(files) > 0
            THEN JList(add_update_files(withsd.v, files)) ELSE withsd)

Procs == {1, 2}

\* a run that is over: it returned, exited, raised, or was stopped
Terminal == {"done", "exit", "error", "interrupted"}

Snapshot ==
    [metadata_dir |-> metadata_dir, disk |-> disk,
     super_json |-> super_json, ui_content |-> ui_content]

write_superdataset_id_only(superds) ==
    << [dataset_id |-> superds["dataset_id"]] >>

\* the content of super.json after write_superdataset
write_superdataset(superds) ==
    << [dataset_id |-> superds["dataset_id"],
        dataset_version |-> superds["dataset_version"]] >>


\* the docstring of setup_metadata_dir: remove the directory with its contents
StartRun_remove(p, batch, ss) ==
    /\ pc[p] \in Terminal \cup {"idle"}
    /\ nruns[p] < MaxRuns
    /\ nruns' = [nruns EXCEPT ![p] = @ + 1]
    /\ prev' = [prev EXCEPT ![p] = [ok |-> pc[p] = "done", metadata |-> metadata[p]]]
    /\ pre' = [pre EXCEPT ![p] = Snapshot]
    /\ metadata' = [metadata EXCEPT ![p] = batch]
    /\ set_super' = [set_super EXCEPT ![p] = ss]
    /\ new_obj' = [new_obj EXCEPT ![p] = EmptyDict]
    /\ results' = [results EXCEPT ![p] = <<>>]
    /\ loaded' = [loaded EXCEPT ![p] = EmptyDict]
    /\ metadata_dir' = TRUE
    /\ disk' = EmptyDict
    /\ UNCHANGED <<ui_content, writer, treeVars, keyVars, addVars, callVars>>

\* lines 166-178: a run starts with its arguments and makes sure that the
\* metadata directory exists
StartRun(p, batch, ss) ==
    /\ pc[p] \in Terminal \cup {"idle"}
    /\ nruns[p] < MaxRuns
    /\ nruns' = [nruns EXCEPT ![p] = @ + 1]
    /\ prev' = [prev EXCEPT ![p] = [ok |-> pc[p] = "done", metadata |-> metadata[p]]]
    /\ pre' = [pre EXCEPT ![p] = Snapshot]
    /\ metadata' = [metadata EXCEPT ![p] = batch]
    /\ set_super' = [set_super EXCEPT ![p] = ss]
    /\ new_obj' = [new_obj EXCEPT ![p] = EmptyDict]
    /\ results' = [results EXCEPT ![p] = <<>>]
    /\ loaded' = [loaded EXCEPT ![p] = EmptyDict]
    /\ metadata_dir' = TRUE
    /\ UNCHANGED <<disk, ui_content, writer, treeVars, keyVars, addVars, callVars>>

\* lines 177-206: the metadata directory, the governing dataset, super.json
Setup(p, batch, ss) ==
    /\ StartRun(p, batch, ss)
    /\ LET datasets == dataset_records(batch)
       IN  IF Cardinality(unique_blobs(datasets)) > 1
           THEN \* sys.exit("Multiple dataset-level metadata items found")
                /\ pc' = [pc EXCEPT ![p] = "exit"]
                /\ printed' = [printed EXCEPT ![p] = <<MsgMultiple>>]
                /\ UNCHANGED super_json
           ELSE IF Len(datasets) = 0
           THEN \* datasets[0]: IndexError
                /\ pc' = [pc EXCEPT ![p] = "error"]
                /\ printed' = [printed EXCEPT ![p] = <<>>]
                /\ UNCHANGED super_json
           ELSE /\ pc' = [pc EXCEPT ![p] = "process"]
                /\ printed' = [printed EXCEPT ![p] =
                                  IF ss THEN <<MsgSuper>> ELSE <<>>]
                /\ super_json' =
                      IF ss THEN write_superdataset(datasets[1]) ELSE super_json

\* lines 208-223: load or create the dataset object, translate the
\* dataset-level records, merge the subdatasets and the files
Process(p) ==
    /\ pc[p] = "process"
    /\ LET datasets  == dataset_records(metadata[p])
           files     == main_dataset_files(metadata[p], datasets)
           processed == process_dataset(datasets, disk)
           stored    == get_dataset_object(datasets[1]["dataset_id"],
                                           datasets[1]["dataset_version"], disk)
       IN  /\ loaded' = [loaded EXCEPT ![p] = stored]
           /\ IF ~IsJSON(stored)
              THEN \* load_json_file: json.load raises, the bare except
                   \* prints and raises again
                   /\ printed' = [printed EXCEPT ![p] = @ \o <<MsgUnexpected>>]
                   /\ pc' = [pc EXCEPT ![p] = "error"]
                   /\ UNCHANGED new_obj
              ELSE /\ printed' = [printed EXCEPT ![p] =
                                     @ \o parse_prints(datasets, stored)]
                   /\ IF \/ ~processed.ok
                         \/ TypeErrorIn(processed.obj["children"],
                                        processed.obj["subdatasets"])
                         \/ FileKeyError(files)
                         \/ TypeErrorIn(processed.obj["children"], files)
                      THEN /\ pc' = [pc EXCEPT ![p] = "error"]
                           /\ UNCHANGED new_obj
                      ELSE /\ pc' = [pc EXCEPT ![p] = "write_children"]
                           /\ new_obj' = [new_obj EXCEPT ![p] =
                                             merge_leaves(processed.obj, files)]
    /\ UNCHANGED <<outVars, metadata, set_super, nruns, results, pre, prev,
                   writer, treeVars, keyVars, addVars, callVars>>

governing(batch) ==
    LET datasets == dataset_records(batch)
    IN  <<datasets[1]["dataset_id"], datasets[1]["dataset_version"]>>

\* lines 225-233: the children document
WriteChildren(p) ==
    /\ pc[p] = "write_children"
    /\ LET g == governing(metadata[p])
           children_hash == md5blob(g[1], g[2], TRUE)
       IN  /\ disk' = Put(disk, children_hash,
                        [children |-> new_obj[p]["children"]])
           /\ writer' = Put(writer, children_hash, p)
    /\ pc' = [pc EXCEPT ![p] = "write_main"]
    /\ UNCHANGED <<metadata_dir, super_json, ui_content, metadata, set_super,
                   new_obj, nruns, printed, results, pre, loaded, prev,
                   treeVars, keyVars, addVars, callVars>>

\* lines 235-242: the main document, then the user interface content; back
\* in Catalog.__call__ (lines 150-163) the status record of the run
WriteMain(p) ==
    /\ pc[p] = "write_main"
    /\ LET g == governing(metadata[p])
           children_hash == md5blob(g[1], g[2], TRUE)
           blob_hash == md5blob(g[1], g[2], FALSE)
           obj == Put(new_obj[p], "children", JStr(children_hash))
       IN  /\ new_obj' = [new_obj EXCEPT ![p] = obj]
           /\ disk' = Put(disk, blob_hash, obj)
           /\ writer' = Put(writer, blob_hash, p)
    /\ ui_content' = TRUE
    /\ results' = [results EXCEPT ![p] = @ \o <<[action |-> "catalog",
                                                  status |-> "ok"]>>]
    /\ pc' = [pc EXCEPT ![p] = "done"]
    /\ UNCHANGED <<metadata_dir, super_json, metadata, set_super,
                   nruns, printed, pre, loaded, prev,
                   treeVars, keyVars, addVars, callVars>>

----------------------------------------------------------------------------
(* Inputs of the tree specification *)

Names == {<<"n">>, <<"x">>}

RECURSIVE SegLists(_)
SegLists(k) ==
    IF k = 0 THEN {<<>>}
    ELSE LET shorter == SegLists(k - 1)
         IN  shorter \cup {Append(l, nm) : l \in {m \in shorter : Len(m) = k - 1},
                                           nm \in Names}

\* the segment lists of the paths: 1..MaxDepth names; a path of more than
\* two segments starts in the directories named n
PathSegs ==
    {l \in SegLists(MaxDepth) :
        Len(l) >= 1 /\ \A i \in 1..(Len(l) - 2) : l[i] = <<"n">>}

Paths == {Join(l, "/") : l \in PathSegs}

\* file["extracted_metadata"] of a file record
FileMetas ==
    { EmptyDict,
      ("contentbytesize" :> 5) @@ ("distribution" :> ("url" :> <<"u">>)) }

FileRec(id, ver, path, em) ==
    [type |-> "file", dataset_id |-> id, dataset_version |-> ver,
     path |-> path, extracted_metadata |-> em]

SubdsRec(id, ver, path) ==
    [dataset_id |-> id, dataset_version |-> ver, dataset_path |-> path,
     dirs_from_path |-> Split(path, "/")]

\* the paths of at most two segments
ShortPaths == {Join(l, "/") : l \in {m \in PathSegs : Len(m) <= 2}}

\* file records: every path without extracted metadata, the short paths
\* also with a size and a url
TreeFiles ==
    {FileRec(<<"d">>, <<"1">>, p, EmptyDict) : p \in Paths}
    \cup {FileRec(<<"d">>, <<"1">>, p, em) : p \in ShortPaths, em \in FileMetas}

TreeSubds == {SubdsRec(<<"s">>, <<"2">>, p) : p \in ShortPaths}

StartTrees ==
    { <<>>,
      << [type |-> "directory", name |-> <<"n">>,
          children |-> << [type |-> "file", name |-> <<"x">>,
                           contentbytesize |-> 7, url |-> <<>>] >>] >> }

----------------------------------------------------------------------------
(* Inputs of the ingestion specification *)

IdD == <<"d">>
IdE == <<"e">>
Ver1 == <<"1">>
Ver2 == <<"2">>

\* a record of the metalad_core_dataset extractor
DsCoreDataset(id) ==
    [type |-> "dataset", dataset_id |-> id, dataset_version |-> Ver1,
     extractor_name |-> "metalad_core_dataset",
     dataset_path |-> <<"p", "/", "q">>]

\* the same dataset at another path
DsMoved(id) ==
    [type |-> "dataset", dataset_id |-> id, dataset_version |-> Ver1,
     extractor_name |-> "metalad_core_dataset",
     dataset_path |-> <<"r">>]

\* a record of the metalad_core_dataset extractor without dataset_path
DsNoPath(id) ==
    [type |-> "dataset", dataset_id |-> id, dataset_version |-> Ver1,
     extractor_name |-> "metalad_core_dataset",
     extraction_time |-> 3]

\* a dataset-level record of the metalad_core extractor with one subdataset
DsCore(id, path) ==
    [type |-> "dataset", dataset_id |-> id, dataset_version |-> Ver1,
     extractor_name |-> "metalad_core",
     extracted_metadata |->
        ("@graph" :>
          << ("@type" :> "Dataset")
             @@ ("hasPart" :>
                  << ("identifier" :> (STRIPDATALAD \o <<"s">>))
                     @@ ("@id" :> (STRIPDATALAD \o <<"2">>))
                     @@ ("name" :> path) >>) >>)]

\* a record that did not come from an extractor
DsPlain(id) ==
    [type |-> "dataset", dataset_id |-> id, dataset_version |-> Ver1]

\* a record of an extractor that no branch of parse_metadata_object matches
DsUnknown(id) ==
    [type |-> "dataset", dataset_id |-> id, dataset_version |-> Ver1,
     extractor_name |-> "other_extractor"]

\* a record of the metalad_studyminimeta extractor: the second author has
\* no entry in the person list
DsStudy(id) ==
    [type |-> "dataset", dataset_id |-> id, dataset_version |-> Ver1,
     extractor_name |-> "metalad_studyminimeta",
     extracted_metadata |->
        ("@graph" :>
          << ("@type" :> "CreativeWork") @@ ("name" :> <<"S">>),
             ("@type" :> "Dataset")
                @@ ("description" :> <<"<", "i", ">">>)
                @@ ("author" :> << ("@id" :> "p1"), ("@id" :> "p2") >>),
             ("@id" :> "#personList")
                @@ ("@list" :> << ("@id" :> "p1") @@ ("name" :> <<"A">>) >>),
             ("@id" :> "#publicationList")
                @@ ("@list" :>
                     << ("@id" :> "b1") @@ ("@type" :> "Article")
                        @@ ("sameAs" :> <<"x">>)
                        @@ ("author" :> << ("@id" :> "p2"), ("@id" :> "p1") >>) >>)
          >>)]

\* a file record without the dataset_version key
FileNoVersion(id, path) ==
    [type |-> "file", dataset_id |-> id, path |-> path,
     extracted_metadata |-> EmptyDict]

FullMeta == ("contentbytesize" :> 5) @@ ("distribution" :> ("url" :> <<"u">>))

DsLists ==
    { <<>>,
      <<DsCoreDataset(IdD)>>,
      <<DsCoreDataset(IdE)>>,
      <<DsCore(IdD, <<"x">>)>>,
      <<DsCoreDataset(IdD), DsCoreDataset(IdE)>>,
      <<DsPlain(IdD)>>,
      <<DsStudy(IdD)>>,
      <<DsUnknown(IdD), DsCoreDataset(IdD)>>,
      <<DsCoreDataset(IdD), DsMoved(IdD)>>,
      <<DsNoPath(IdD)>> }

FileLists ==
    { <<>>,
      <<FileRec(IdD, Ver1, <<"x">>, EmptyDict)>>,
      <<FileRec(IdD, Ver1, <<"n", "/", "x">>, EmptyDict),
        FileRec(IdE, Ver1, <<"x">>, FullMeta),
        FileRec(IdD, Ver2, <<"x">>, EmptyDict),
        FileRec(IdD, Ver1, <<"n">>, FullMeta),
        FileNoVersion(IdD, <<"x", "/", "n">>)>> }

Batches == {ds \o fs : ds \in DsLists, fs \in FileLists}

----------------------------------------------------------------------------
(* Ingestion specification: runs of datalad_catalog(), one after another,  *)
(* on one output directory                                                 *)

InitRuns ==
    /\ metadata_dir = FALSE
    /\ disk = EmptyDict
    /\ super_json = <<>>
    /\ ui_content = FALSE
    /\ pc = [p \in Procs |-> "idle"]
    /\ metadata = [p \in Procs |-> <<>>]
    /\ set_super = [p \in Procs |-> FALSE]
    /\ new_obj = [p \in Procs |-> EmptyDict]
    /\ nruns = [p \in Procs |-> 0]
    /\ printed = [p \in Procs |-> <<>>]
    /\ results = [p \in Procs |-> <<>>]
    /\ loaded = [p \in Procs |-> EmptyDict]
    /\ writer = EmptyDict
    /\ pre = [p \in Procs |-> [metadata_dir |-> FALSE, disk |-> EmptyDict,
                               super_json |-> <<>>, ui_content |-> FALSE]]
    /\ prev = [p \in Procs |-> [ok |-> FALSE, metadata |-> <<>>]]

KeyIdle == keyIn = <<>> /\ keyOut = <<>>

TreeIdle == tree0 = <<>> /\ tree = <<>> /\ merged = {} /\ nmerged = 0

AddIdle ==
    add_metadata = <<>> /\ add_i = 0 /\ add_log = <<>> /\ add_pc = "returned"

CallIdle == callee = "" /\ call_args = <<>> /\ call_result = <<>>

Init == InitRuns /\ TreeIdle /\ KeyIdle /\ AddIdle /\ CallIdle

Sequential == {1}

Next ==
    \E p \in Sequential :
        \/ \E batch \in Batches, ss \in BOOLEAN : Setup(p, batch, ss)
        \/ Process(p)
        \/ WriteChildren(p)
        \/ WriteMain(p)

Spec == Init /\ [][Next]_vars

----------------------------------------------------------------------------
(* Tree specification: leaves are merged one at a time, in any order *)

InitTree ==
    /\ tree0 \in StartTrees
    /\ tree = tree0
    /\ merged = {}
    /\ nmerged = 0
    /\ KeyIdle
    /\ InitRuns
    /\ AddIdle
    /\ CallIdle

MergeFile(file) ==
    /\ nmerged < MaxLeaves
    /\ tree' = add_update_files(tree, <<file>>)
    /\ merged' = merged \cup {file}
    /\ nmerged' = nmerged + 1
    /\ UNCHANGED <<tree0, keyVars, outVars, runVars, addVars, callVars>>

MergeSubdataset(subds) ==
    /\ nmerged < MaxLeaves
    /\ tree' = add_update_subdatasets(tree, <<subds>>)
    /\ merged' = merged \cup {subds}
    /\ nmerged' = nmerged + 1
    /\ UNCHANGED <<tree0, keyVars, outVars, runVars, addVars, callVars>>

NextTree ==
    \/ \E file \in TreeFiles : MergeFile(file)
    \/ \E subds \in TreeSubds : MergeSubdataset(subds)

SpecTree == InitTree /\ [][NextTree]_vars

----------------------------------------------------------------------------
(* Key specification: md5blob applied to two argument triples *)

KeyIds == { <<"a">>, <<"a", "-", "b">> }

KeyVersions == { <<"c">>, <<"b", "-", "c">>, <<"c">> \o DashChildren }

KeyTriples == KeyIds \X KeyVersions \X BOOLEAN

InitKey ==
    /\ keyIn \in KeyTriples \X KeyTriples
    /\ keyOut = <<>>
    /\ TreeIdle
    /\ InitRuns
    /\ AddIdle
    /\ CallIdle

ComputeKeys ==
    /\ keyOut = <<>>
    /\ keyOut' = << md5blob(keyIn[1][1], keyIn[1][2], keyIn[1][3]),
                    md5blob(keyIn[2][1], keyIn[2][2], keyIn[2][3]) >>
    /\ UNCHANGED <<keyIn, treeVars, outVars, runVars, addVars, callVars>>

NextKey == ComputeKeys

SpecKey == InitKey /\ [][NextKey]_vars

----------------------------------------------------------------------------
(* Properties of the tree merge *)

IsFileRec(leaf) == "type" \in DOMAIN leaf

LeafPath(leaf) == IF IsFileRec(leaf) THEN leaf.path ELSE leaf.dataset_path

\* the (name, type) children of every directory, as nested sets
RECURSIVE Shape(_)
Shape(children) ==
    { [name |-> children[i].name,
       type |-> children[i].type,
       sub  |-> IF "children" \in DOMAIN children[i]
                THEN Shape(children[i].children) ELSE {}] :
      i \in 1..Len(children) }

RECURSIVE NodeCount(_)
NodeCount(children) ==
    IF Len(children) = 0 THEN 0
    ELSE (IF "children" \in DOMAIN Head(children)
          THEN 1 + NodeCount(Head(children).children) ELSE 1)
         + NodeCount(Tail(children))

\* one fixed enumeration of a set of leaves
RECURSIVE Canon(_)
Canon(S) ==
    IF S = {} THEN <<>>
    ELSE LET l == CHOOSE l \in S : TRUE IN <<l>> \o Canon(S \ {l})

RECURSIVE MergeAll(_, _)
MergeAll(children, leaves) ==
    IF Len(leaves) = 0 THEN children
    ELSE MergeAll(IF IsFileRec(Head(leaves))
                  THEN add_update_files(children, <<Head(leaves)>>)
                  ELSE add_update_subdatasets(children, <<Head(leaves)>>),
                  Tail(leaves))

DistinctPaths ==
    /\ Cardinality(merged) = nmerged
    /\ \A a, b \in merged : a # b => LeafPath(a) # LeafPath(b)

\* C3: leaves with pairwise different paths, merged one by one in whatever
\* order from a starting tree, give the tree shape (the set of (name, type)
\* children of every directory) that merging the same leaves in one fixed
\* order from the same starting tree gives.
C3_OrderIndependence ==
    DistinctPaths => Shape(tree) = Shape(MergeAll(tree0, Canon(merged)))

\* two leaves were merged in the order that is not the fixed one: the sibling
\* order differs, the shape does not
C3_Witness ==
    /\ DistinctPaths
    /\ nmerged >= 2
    /\ tree # MergeAll(tree0, Canon(merged))

\* the shape of the chain s1/.../sk: directories s1..s(k-1), file sk
RECURSIVE ChainShape(_)
ChainShape(segs) ==
    IF Len(segs) = 1
    THEN { [name |-> segs[1], type |-> "file", sub |-> {}] }
    ELSE { [name |-> segs[1], type |-> "directory", sub |-> ChainShape(Tail(segs))] }

\* C4: one file leaf with path s1/.../sk merged into an empty children list
\* gives exactly k nodes, the chain of directories s1..s(k-1) ending in the
\* file sk.
C4_PathRoundTrip ==
    (tree0 = <<>> /\ nmerged = 1) =>
        \A segs \in PathSegs, em \in FileMetas :
            merged = {FileRec(<<"d">>, <<"1">>, Join(segs, "/"), em)}
            => /\ NodeCount(tree) = Len(segs)
               /\ Shape(tree) = ChainShape(segs)

C4_Witness ==
    /\ tree0 = <<>>
    /\ nmerged = 1
    /\ \E file \in merged : IsFileRec(file) /\ Len(file.path) = 2 * MaxDepth - 1
    /\ NodeCount(tree) = MaxDepth

RECURSIVE NoDupSiblings(_)
NoDupSiblings(children) ==
    /\ \A i, j \in 1..Len(children) :
          (children[i].name = children[j].name
           /\ children[i].type = children[j].type) => i = j
    /\ \A i \in 1..Len(children) :
          "children" \in DOMAIN children[i] => NoDupSiblings(children[i].children)

\* C5: after any sequence of file and subdataset merges from an empty
\* children list, no children sequence at any depth holds two nodes with the
\* same name and the same type.
C5_SiblingUniqueness == tree0 = <<>> => NoDupSiblings(tree)

\* a leaf was merged a second time
C5_Witness ==
    /\ tree0 = <<>>
    /\ nmerged = MaxLeaves
    /\ Cardinality(merged) < nmerged
    /\ NodeCount(tree) >= 2

\* the children list reached from `children` through the directories dirs
RECURSIVE LevelOf(_, _)
LevelOf(children, dirs) ==
    IF Len(dirs) = 0 THEN children
    ELSE LET ds == {i \in 1..Len(children) : children[i].type = "directory"
                                             /\ children[i].name = dirs[1]}
         IN  IF ds = {} THEN <<>>
             ELSE LevelOf(children[CHOOSE i \in ds : \A j \in ds : i <= j].children,
                          Tail(dirs))

Front(s) == SubSeq(s, 1, Len(s) - 1)

IsProperPrefix(s, t) == Len(s) < Len(t) /\ SubSeq(t, 1, Len(s)) = s

NodesAt(level, ty, nm) ==
    {i \in 1..Len(level) : level[i].type = ty /\ level[i].name = nm}

\* a file leaf with path segments segs and a leaf below the directory of the
\* same name, segs2, have both been merged
SameNameMerged(segs, segs2) ==
    /\ IsProperPrefix(segs, segs2)
    /\ \E file \in merged : IsFileRec(file) /\ file.path = Join(segs, "/")
    /\ \E leaf \in merged : LeafPath(leaf) = Join(segs2, "/")

\* C6: when a file leaf named n and a directory level named n are addressed
\* at the same tree level, that level holds one file node n, which has no
\* children, and one directory node n, which holds the next segment of the
\* longer path, whichever leaf was merged first.
C6_NameKindDiscrimination ==
    \A segs \in PathSegs, segs2 \in PathSegs :
        SameNameMerged(segs, segs2) =>
            LET level == LevelOf(tree, Front(segs))
                nm    == segs[Len(segs)]
                fs    == NodesAt(level, "file", nm)
                ds    == NodesAt(level, "directory", nm)
            IN  /\ Cardinality(fs) = 1
                /\ Cardinality(ds) = 1
                /\ \A i \in fs : "children" \notin DOMAIN level[i]
                /\ \A i \in ds : \E j \in 1..Len(level[i].children) :
                       level[i].children[j].name = segs2[Len(segs) + 1]

\* the directory n was created first and the file n came second
C6_Witness ==
    /\ tree0 = <<>>
    /\ \E segs \in PathSegs, segs2 \in PathSegs :
          /\ SameNameMerged(segs, segs2)
          /\ LET level == LevelOf(tree, Front(segs))
             IN  \E i \in NodesAt(level, "directory", segs[Len(segs)]),
                    j \in NodesAt(level, "file", segs[Len(segs)]) : i < j

----------------------------------------------------------------------------
(* Properties of the blob keys *)

KeysComputed == keyOut # <<>>

\* C7: md5blob gives equal keys for equal arguments, and for every
\* (identifier, version) the main key differs from the children key.
C7_KeyRoleSeparation ==
    KeysComputed =>
        /\ keyIn[1] = keyIn[2] => keyOut[1] = keyOut[2]
        /\ ( /\ keyIn[1][1] = keyIn[2][1]
             /\ keyIn[1][2] = keyIn[2][2]
             /\ keyIn[1][3] # keyIn[2][3] ) => keyOut[1] # keyOut[2]

\* the main and the children key of one (identifier, version) were computed
C7_Witness ==
    /\ KeysComputed
    /\ keyIn[1][1] = keyIn[2][1]
    /\ keyIn[1][2] = keyIn[2][2]
    /\ ~keyIn[1][3]
    /\ keyIn[2][3]

\* C8: two different (identifier, version, children) triples never give the
\* same hashed string, also when identifiers or versions contain "-" or end
\* in "-children".
C8_KeyInjectivity ==
    (KeysComputed /\ keyIn[1] # keyIn[2]) => keyOut[1] # keyOut[2]

----------------------------------------------------------------------------
(* Properties of the ingestion run *)

Ended(p) == pc[p] \in Terminal

HasSingleSource(batch) ==
    Cardinality({<<r["dataset_id"], r["dataset_version"]>> :
                    r \in {x \in Range(batch) : x["type"] = "dataset"}}) = 1

MainKey(batch) == md5blob(governing(batch)[1], governing(batch)[2], FALSE)

ChildrenKey(batch) == md5blob(governing(batch)[1], governing(batch)[2], TRUE)

\* the run of p that just ended was given the batch of the successful run
\* before it
SameBatchAgain(p) ==
    /\ Ended(p)
    /\ prev[p].ok
    /\ prev[p].metadata = metadata[p]

\* C1: a second run with the same batch on the same output directory
\* completes and leaves the main blob and the children blob as they were
\* after the first run.
C1_Idempotence ==
    \A p \in Sequential :
        SameBatchAgain(p) =>
            /\ pc[p] = "done"
            /\ disk[MainKey(metadata[p])] = pre[p].disk[MainKey(metadata[p])]
            /\ disk[ChildrenKey(metadata[p])]
                   = pre[p].disk[ChildrenKey(metadata[p])]

\* the paths of the file and subdataset leaves that a batch addresses to its
\* governing dataset
BatchLeafPaths(batch) ==
    LET g == governing(batch)
        fs == {r \in Range(batch) :
                  /\ r["type"] = "file"
                  /\ "dataset_id" \in DOMAIN r
                  /\ "dataset_version" \in DOMAIN r
                  /\ r["dataset_id"] = g[1]
                  /\ r["dataset_version"] = g[2]}
        cs == {r \in Range(batch) :
                  /\ r["type"] = "dataset"
                  /\ "extractor_name" \in DOMAIN r
                  /\ r["extractor_name"] = "metalad_core"
                  /\ "extracted_metadata" \in DOMAIN r}
    IN  {r["path"] : r \in fs}
        \cup UNION { UNION { {part["name"] : part \in Range(item["hasPart"])} :
                             item \in {x \in Range(r["extracted_metadata"]["@graph"]) :
                                          "hasPart" \in DOMAIN x} } :
                     r \in cs }

\* the paths of the file and dataset nodes of a tree
RECURSIVE TreeLeafPaths(_, _)
TreeLeafPaths(children, prefix) ==
    UNION { IF "children" \in DOMAIN children[i]
            THEN TreeLeafPaths(children[i].children,
                               prefix \o children[i].name \o <<"/">>)
            ELSE {prefix \o children[i].name} :
            i \in 1..Len(children) }

StoredLeafPaths(doc) ==
    IF doc["children"].t = "list" THEN TreeLeafPaths(doc["children"].v, <<>>)
    ELSE {}

\* the run of p completed after a successful run for the same governing
\* dataset
SecondBatchDone(p) ==
    /\ pc[p] = "done"
    /\ prev[p].ok
    /\ governing(prev[p].metadata) = governing(metadata[p])

\* C2: after batch A and then batch B for the same governing dataset, the
\* stored children blob holds every leaf path of A and every leaf path of B.
C2_AdditiveMerge ==
    \A p \in Sequential :
        SecondBatchDone(p) =>
            (BatchLeafPaths(prev[p].metadata) \cup BatchLeafPaths(metadata[p]))
                \subseteq StoredLeafPaths(disk[ChildrenKey(metadata[p])])

MultipleSources(batch) ==
    Cardinality({<<r["dataset_id"], r["dataset_version"]>> :
                    r \in {x \in Range(batch) : x["type"] = "dataset"}}) > 1

\* C9: a batch whose dataset-level records name more than one
\* (dataset_id, dataset_version) aborts the run, and at the abort nothing was
\* written or created under the output location: no blob, no super.json, no
\* directory.
C9_MultipleSourcesNoSideEffect ==
    \A p \in Sequential :
        (pc[p] # "idle" /\ MultipleSources(metadata[p])) =>
            /\ pc[p] = "exit"
            /\ disk = pre[p].disk
            /\ super_json = pre[p].super_json
            /\ ui_content = pre[p].ui_content
            /\ metadata_dir = pre[p].metadata_dir

NoDatasetRecord(batch) == \A r \in Range(batch) : r["type"] # "dataset"

\* C10: a batch without a dataset-level record fails the whole run, and no
\* main blob, children blob or super.json is written or modified.
C10_NoSourceDataset ==
    \A p \in Sequential :
        (pc[p] # "idle" /\ NoDatasetRecord(metadata[p])) =>
            /\ pc[p] = "error"
            /\ disk = pre[p].disk
            /\ super_json = pre[p].super_json

\* a batch of file records only failed, super.json was requested, and the
\* blobs and super.json of an earlier run are there
C10_Witness ==
    \E p \in Sequential :
        /\ pc[p] = "error"
        /\ Len(metadata[p]) > 0
        /\ NoDatasetRecord(metadata[p])
        /\ set_super[p]
        /\ DOMAIN disk # {}
        /\ super_json # <<>>

----------------------------------------------------------------------------
(* Unrecognized extractors *)

Unrecognized(r) == "extractor_name" \in DOMAIN r /\ ~recognized(r)

HasUnrecognized(batch) ==
    \E i \in 1..Len(dataset_records(batch)) :
        Unrecognized(dataset_records(batch)[i])

\* the dataset object that the other dataset-level records of the batch
\* translate to
TranslatedWithout(batch, files) ==
    LET g      == governing(batch)
        others == SelectSeq(dataset_records(batch), LAMBDA r : ~Unrecognized(r))
    IN  add_missing_fields(
            parse_all(others, get_dataset_object(g[1], g[2], files)).obj)

SameButChildren(a, b) ==
    /\ DOMAIN a = DOMAIN b
    /\ \A k \in DOMAIN a \ {"children"} : a[k] = b[k]

\* the run of p was the first ingestion for its governing dataset
FirstIngestion(p) ==
    /\ HasSingleSource(metadata[p])
    /\ MainKey(metadata[p]) \notin DOMAIN pre[p].disk

\* C11: a first ingestion whose batch has a dataset-level record of an
\* unrecognized extractor completes, yields a status record that reports the
\* skipped item, writes the main and the children blob, and stores the node
\* that the other dataset-level records translate to (defaults only, when
\* there is no other record).
C11_UnrecognizedExtractor ==
    \A p \in Sequential :
        (Ended(p) /\ FirstIngestion(p) /\ HasUnrecognized(metadata[p])) =>
            /\ pc[p] = "done"
            /\ \E i \in 1..Len(results[p]) : results[p][i].status # "ok"
            /\ ChildrenKey(metadata[p]) \in DOMAIN disk
            /\ MainKey(metadata[p]) \in DOMAIN disk
            /\ SameButChildren(disk[MainKey(metadata[p])],
                               TranslatedWithout(metadata[p], pre[p].disk))


----------------------------------------------------------------------------
(* The two documents of a dataset *)

\* C13: after every successful ingestion the main blob of the governing
\* dataset is the dataset node with the key of the children blob as its
\* children field, and the children blob is a document whose children field
\* is a list of tree nodes, never a key string.
C13_MainChildrenSplit ==
    \A p \in Sequential :
        pc[p] = "done" =>
            /\ MainKey(metadata[p]) \in DOMAIN disk
            /\ ChildrenKey(metadata[p]) \in DOMAIN disk
            /\ disk[MainKey(metadata[p])] = new_obj[p]
            /\ disk[MainKey(metadata[p])]["children"]
                   = JStr(ChildrenKey(metadata[p]))
            /\ DOMAIN disk[ChildrenKey(metadata[p])] = {"children"}
            /\ disk[ChildrenKey(metadata[p])]["children"].t = "list"


----------------------------------------------------------------------------
(* Concurrent ingestion: two processes run datalad_catalog() on the same   *)
(* output directory with no lock; their reads and writes of the blobs      *)
(* interleave                                                              *)

MaxConcRuns == 1

ConcBatches ==
    { <<DsCoreDataset(IdD), FileRec(IdD, Ver1, <<"n">>, FullMeta)>>,
      <<DsCoreDataset(IdD), FileRec(IdD, Ver1, <<"x">>, EmptyDict)>>,
      <<DsPlain(IdD)>>,
      <<DsCoreDataset(IdE), FileRec(IdE, Ver1, <<"x">>, EmptyDict)>> }

\* a run starts while the other process may be in the middle of its own
SetupConc(p, batch) ==
    /\ nruns[p] < MaxConcRuns
    /\ Setup(p, batch, FALSE)

NextConc ==
    \E p \in Procs :
        \/ \E batch \in ConcBatches : SetupConc(p, batch)
        \/ Process(p)
        \/ WriteChildren(p)
        \/ WriteMain(p)

SpecConc == Init /\ [][NextConc]_vars

\* p and q completed runs for the same governing dataset that loaded the
\* same prior document, and q wrote the children blob last
LoadedSameWroteLast(p, q) ==
    /\ p # q
    /\ pc[p] = "done" /\ pc[q] = "done"
    /\ governing(metadata[p]) = governing(metadata[q])
    /\ loaded[p] = loaded[q]
    /\ writer[ChildrenKey(metadata[q])] = q

\* C14: when two runs for the same dataset loaded the same prior blob, the
\* stored children blob holds the tree additions of the later writer only;
\* the additions of the earlier writer are not in it.
C14_LostUpdate ==
    \A p, q \in Procs :
        LoadedSameWroteLast(p, q) =>
            /\ StoredLeafPaths(disk[ChildrenKey(metadata[q])])
                   = BatchLeafPaths(metadata[q])
            /\ (BatchLeafPaths(metadata[p]) \ BatchLeafPaths(metadata[q]))
                   \cap StoredLeafPaths(disk[ChildrenKey(metadata[q])]) = {}

\* both runs loaded "no blob yet", each added a file of its own, and the file
\* of the earlier writer is lost
C14_Witness ==
    \E p, q \in Procs :
        /\ LoadedSameWroteLast(p, q)
        /\ loaded[p] = EmptyDict
        /\ BatchLeafPaths(metadata[p]) # {}
        /\ BatchLeafPaths(metadata[q]) # {}
        /\ BatchLeafPaths(metadata[p]) \cap BatchLeafPaths(metadata[q]) = {}
        /\ StoredLeafPaths(disk[ChildrenKey(metadata[q])])
               = BatchLeafPaths(metadata[q])


----------------------------------------------------------------------------
(* The superdataset pointer *)

SuperOf(batch) ==
    << [dataset_id |-> governing(batch)[1],
        dataset_version |-> governing(batch)[2]] >>

\* C15: a run without set_super leaves super.json as it was; a run with
\* set_super on a batch of a single source dataset leaves super.json holding
\* exactly the dataset_id and dataset_version of the governing dataset; a run
\* that has no governing dataset writes no super.json.
C15_SuperdatasetPointer ==
    \A p \in Sequential :
        pc[p] # "idle" =>
            /\ ~set_super[p] => super_json = pre[p].super_json
            /\ (set_super[p] /\ HasSingleSource(metadata[p]))
                  => super_json = SuperOf(metadata[p])
            /\ ~HasSingleSource(metadata[p]) => super_json = pre[p].super_json

\* a run with set_super for another dataset replaced an existing pointer
C15_Witness ==
    \E p \in Sequential :
        /\ pc[p] = "done"
        /\ set_super[p]
        /\ pre[p].super_json # <<>>
        /\ pre[p].super_json # SuperOf(metadata[p])
        /\ super_json = SuperOf(metadata[p])


----------------------------------------------------------------------------
(* Merging a leaf that the tree already has *)

\* the step merges the file record
MergesFile(file) ==
    /\ nmerged' = nmerged + 1
    /\ merged' = merged \cup {file}
    /\ tree' = add_update_files(tree, <<file>>)

\* the step merges the subdataset record
MergesSubdataset(subds) ==
    /\ nmerged' = nmerged + 1
    /\ merged' = merged \cup {subds}
    /\ tree' = add_update_subdatasets(tree, <<subds>>)

\* the index of the node of type ty that the last segment of the path
\* addresses in the tree, 0 if there is none
ExistingLeaf(children, path, ty) ==
    LET nodes == Split(path, "/")
    IN  leaf_idx_found(LevelOf(children, Front(nodes)), ty, nodes[Len(nodes)])

\* after the step the node at the place of the existing leaf is the given
\* node, and no node was added
ReplacedBy(path, ty, node) ==
    LET nodes == Split(path, "/")
        idx   == ExistingLeaf(tree, path, ty)
    IN  /\ Len(LevelOf(tree', Front(nodes))) = Len(LevelOf(tree, Front(nodes)))
        /\ LevelOf(tree', Front(nodes))[idx] = node
        /\ NodeCount(tree') = NodeCount(tree)

\* C16: when a merged file (subdataset) leaf finds a file (dataset) node of
\* its name at the final level, the step leaves that node at its position
\* with contentbytesize and url (dataset_id and dataset_version) of the
\* incoming record, and appends no node.
C16_LeafUpdateInPlace ==
    [][ /\ \A file \in TreeFiles :
              (MergesFile(file) /\ ExistingLeaf(tree, file.path, "file") # 0)
                 => LET nodes == Split(file.path, "/")
                    IN  ReplacedBy(file.path, "file",
                                   new_file_node(file, nodes[Len(nodes)]))
        /\ \A subds \in TreeSubds :
              (MergesSubdataset(subds)
                  /\ ExistingLeaf(tree, subds.dataset_path, "dataset") # 0)
                 => LET nodes == subds.dirs_from_path
                    IN  ReplacedBy(subds.dataset_path, "dataset",
                                   new_subds_node(subds, nodes[Len(nodes)]))
      ]_vars


----------------------------------------------------------------------------
(* What a merge leaves alone *)

\* the two nodes agree in everything but their children
SameNode(a, b) ==
    /\ DOMAIN a = DOMAIN b
    /\ \A k \in DOMAIN a \ {"children"} : a[k] = b[k]

\* new has every node of old, at its position and with its name, type and
\* attributes, and at every level at most one more node, at the end
RECURSIVE Grown(_, _)
Grown(old, new) ==
    /\ Len(new) \in {Len(old), Len(old) + 1}
    /\ \A i \in 1..Len(old) :
          /\ SameNode(old[i], new[i])
          /\ "children" \in DOMAIN old[i]
                => Grown(old[i].children, new[i].children)
    /\ (Len(new) = Len(old) + 1 /\ "children" \in DOMAIN new[Len(new)])
          => Grown(<<>>, new[Len(new)].children)

\* C17: a step that merges one leaf keeps every node of the tree where it
\* is, with its name, type and attributes; it adds at most one node per
\* segment of the path, and a node that it adds is the last of its level.
C17_MergePreservesTree ==
    [][ /\ \A file \in TreeFiles :
              MergesFile(file)
                 => /\ Grown(tree, tree')
                    /\ NodeCount(tree') - NodeCount(tree)
                          <= Len(Split(file.path, "/"))
        /\ \A subds \in TreeSubds :
              MergesSubdataset(subds)
                 => /\ Grown(tree, tree')
                    /\ NodeCount(tree') - NodeCount(tree)
                          <= Len(subds.dirs_from_path)
      ]_vars

\* a leaf was merged into a tree that had nodes: they are all in place and
\* a new directory with the leaf below it came after them
C17_Witness ==
    /\ tree0 # <<>>
    /\ nmerged = 1
    /\ Grown(tree0, tree)
    /\ Len(tree) = Len(tree0) + 1
    /\ NodeCount(tree) = NodeCount(tree0) + 2


----------------------------------------------------------------------------
(* Which file records reach the tree *)

\* the file records of the batch that carry the governing pair
GoverningFiles(batch) ==
    {r \in Range(batch) :
        /\ r["type"] = "file"
        /\ "dataset_id" \in DOMAIN r
        /\ "dataset_version" \in DOMAIN r
        /\ <<r["dataset_id"], r["dataset_version"]>> = governing(batch)}

OtherFiles(batch) ==
    {r \in Range(batch) : r["type"] = "file"} \ GoverningFiles(batch)

\* the paths of the file nodes of a tree
RECURSIVE TreeFilePaths(_, _)
TreeFilePaths(children, prefix) ==
    UNION { IF "children" \in DOMAIN children[i]
            THEN TreeFilePaths(children[i].children,
                               prefix \o children[i].name \o <<"/">>)
            ELSE IF children[i].type = "file"
            THEN {prefix \o children[i].name} ELSE {} :
            i \in 1..Len(children) }

\* the run of p merged its leaves into a new dataset object
MergedIntoNew(p) ==
    /\ pc[p] = "write_children"
    /\ loaded[p] = EmptyDict

\* C18: the file nodes of the tree that a run built for a new dataset are
\* the paths of the file records that carry the governing dataset_id and
\* dataset_version; the file records of another dataset or version, or
\* without one of the two keys, have no node.
C18_GoverningPairFilter ==
    \A p \in Sequential :
        MergedIntoNew(p) =>
            TreeFilePaths(new_obj[p]["children"].v, <<>>)
                = {r["path"] : r \in GoverningFiles(metadata[p])}

\* the batch had a file of the governing dataset, a file of another
\* version and a file without dataset_version
C18_Witness ==
    \E p \in Sequential :
        /\ MergedIntoNew(p)
        /\ GoverningFiles(metadata[p]) # {}
        /\ \E r \in OtherFiles(metadata[p]) : "dataset_version" \notin DOMAIN r
        /\ \E r \in OtherFiles(metadata[p]) :
              /\ "dataset_version" \in DOMAIN r
              /\ r["dataset_version"] # governing(metadata[p])[2]
        /\ \A r \in OtherFiles(metadata[p]) :
              r["path"] \notin TreeFilePaths(new_obj[p]["children"].v, <<>>)


----------------------------------------------------------------------------
(* Field copies of the core-family translators *)

CoreFamily(r) ==
    /\ "extractor_name" \in DOMAIN r
    /\ \/ r["extractor_name"] = "metalad_core_dataset"
       \/ r["extractor_name"] = "metalad_core" /\ r["type"] = "dataset"

SchemaOf(r) ==
    IF r["extractor_name"] = "metalad_core_dataset"
    THEN core_dataset_schema ELSE core_schema_for_dataset

\* the dataset-level records of the batch, by position, whose mapping has
\* the canonical field and that have the source field
Suppliers(datasets, field) ==
    {i \in 1..Len(datasets) :
        /\ CoreFamily(datasets[i])
        /\ field \in DOMAIN SchemaOf(datasets[i])
        /\ SchemaOf(datasets[i])[field] \in DOMAIN datasets[i]}

LastOf(S) == CHOOSE i \in S : \A j \in S : j <= i

CanonicalFields == DOMAIN core_dataset_schema \cup DOMAIN core_schema_for_dataset

\* the run of p translated its dataset-level records
Translated(p) == pc[p] = "write_children"

----------------------------------------------------------------------------
(* Add.__call__ (src/datalad_catalog/add.py): the loop over the metadata   *)
(* stream.  An item is a CapturedException relayed by the input generator, *)
(* a str, a dict, or another JSON value.  A str is represented by what     *)
(* json.loads makes of its text; a dict by whether the catalog schema      *)
(* accepts it.                                                             *)

MaxItems == 3

CapturedException == [py |-> "CapturedException"]
PyDict(valid) == [py |-> "dict", valid |-> valid]
PyList == [py |-> "list"]
JSONDecodeError == [py |-> "JSONDecodeError"]
PyStr(decoded) == [py |-> "str", decoded |-> decoded]

\* json.loads(line.rstrip()): the decoded value, or JSONDecodeError when the
\* text is not JSON
json_loads(line) == line.decoded

\* lines 172-175
meta_dict(line) == IF line.py = "str" THEN json_loads(line) ELSE line

ValidationError_never(d) == FALSE

\* ctlg.VALIDATOR.validate(meta_dict) raises ValidationError
ValidationError(d) == ~d.valid

Yield(item, status) ==
    [ev |-> "yield", item |-> item, action |-> "catalog_add", status |-> status]

\* meta_item.write_nodes_to_files() for the item
WriteNodes(item) == [ev |-> "write", item |-> item]

\* for line in metadata: i += 1
NextLine ==
    /\ add_pc = "loop"
    /\ add_i < Len(add_metadata)
    /\ add_i' = add_i + 1
    /\ UNCHANGED add_metadata

\* lines 160-170
RelayException ==
    /\ NextLine
    /\ add_metadata[add_i'].py = "CapturedException"
    /\ add_log' = Append(add_log, Yield(add_i', "error"))
    /\ UNCHANGED <<add_pc, treeVars, keyVars, outVars, runVars, callVars>>

\* line 173: json.loads raises, the exception leaves the generator
DecodeRaises ==
    /\ NextLine
    /\ add_metadata[add_i'].py = "str"
    /\ json_loads(add_metadata[add_i']) = JSONDecodeError
    /\ add_pc' = "raised"
    /\ UNCHANGED <<add_log, treeVars, keyVars, outVars, runVars, callVars>>

\* lines 177-188
NotDict ==
    /\ NextLine
    /\ add_metadata[add_i'].py # "CapturedException"
    /\ meta_dict(add_metadata[add_i']) # JSONDecodeError
    /\ meta_dict(add_metadata[add_i']).py # "dict"
    /\ add_log' = Append(add_log, Yield(add_i', "impossible"))
    /\ UNCHANGED <<add_pc, treeVars, keyVars, outVars, runVars, callVars>>

\* lines 190-200
ValidationFails ==
    /\ NextLine
    /\ add_metadata[add_i'].py # "CapturedException"
    /\ meta_dict(add_metadata[add_i']).py = "dict"
    /\ ValidationError(meta_dict(add_metadata[add_i']))
    /\ add_log' = Append(add_log, Yield(add_i', "error"))
    /\ UNCHANGED <<add_pc, treeVars, keyVars, outVars, runVars, callVars>>

\* lines 202-203
WriteItem ==
    /\ NextLine
    /\ add_metadata[add_i'].py # "CapturedException"
    /\ meta_dict(add_metadata[add_i']).py = "dict"
    /\ ~ValidationError(meta_dict(add_metadata[add_i']))
    /\ add_log' = Append(add_log, WriteNodes(add_i'))
    /\ add_pc' = "written"
    /\ UNCHANGED <<treeVars, keyVars, outVars, runVars, callVars>>

\* lines 204-208
YieldOk ==
    /\ add_pc = "written"
    /\ add_log' = Append(add_log, Yield(add_i, "ok"))
    /\ add_pc' = "loop"
    /\ UNCHANGED <<add_metadata, add_i, treeVars, keyVars, outVars, runVars, callVars>>

\* the stream is exhausted
Return ==
    /\ add_pc = "loop"
    /\ add_i = Len(add_metadata)
    /\ add_pc' = "returned"
    /\ UNCHANGED <<add_metadata, add_i, add_log, treeVars, keyVars, outVars,
                   runVars, callVars>>

Lines ==
    { CapturedException, PyDict(TRUE), PyDict(FALSE), PyList,
      PyStr(PyDict(TRUE)), PyStr(PyDict(FALSE)), PyStr(PyList),
      PyStr(JSONDecodeError) }

Streams == UNION { [1..n -> Lines] : n \in 0..MaxItems }

InitAdd ==
    /\ add_metadata \in Streams
    /\ add_i = 0
    /\ add_log = <<>>
    /\ add_pc = "loop"
    /\ TreeIdle
    /\ KeyIdle
    /\ InitRuns
    /\ CallIdle

NextAdd ==
    \/ RelayException
    \/ DecodeRaises
    \/ NotDict
    \/ ValidationFails
    \/ WriteItem
    \/ YieldOk
    \/ Return

SpecAdd == InitAdd /\ [][NextAdd]_vars

----------------------------------------------------------------------------
(* Properties of Add.__call__ *)

Yielded == SelectSeq(add_log, LAMBDA e : e.ev = "yield")

IsDictItem(line) ==
    \/ line.py = "dict"
    \/ line.py = "str" /\ line.decoded.py = "dict"

IsValidItem(line) == IsDictItem(line) /\ meta_dict(line).valid

\* the status that belongs to an item
StatusOf(line) ==
    IF line.py = "CapturedException" THEN "error"
    ELSE IF ~IsDictItem(line) THEN "impossible"
    ELSE IF IsValidItem(line) THEN "ok" ELSE "error"

AddEnded == add_pc \in {"returned", "raised"}

\* C12: when Add.__call__ has ended, exactly one status record was yielded
\* for every item of the stream, in input order: error for a relayed
\* exception, impossible for an item that is not a dict, error for a dict
\* that fails validation, ok for a valid dict.
C12_OneStatusPerItem ==
    AddEnded =>
        /\ Len(Yielded) = Len(add_metadata)
        /\ \A k \in 1..Len(Yielded) :
              /\ Yielded[k].item = k
              /\ Yielded[k].status = StatusOf(add_metadata[k])

Writes == SelectSeq(add_log, LAMBDA e : e.ev = "write")

\* C20: write_nodes_to_files has been called, once, for exactly those of the
\* items taken from the stream that are dicts accepted by the schema; the ok
\* status of an item comes after its write; an item with status error or
\* impossible has no write.
C20_OnlyValidatedWritten ==
    /\ \A k \in 1..add_i :
          IsValidItem(add_metadata[k])
             <=> \E j \in 1..Len(add_log) : add_log[j] = WriteNodes(k)
    /\ \A j, l \in 1..Len(Writes) : j # l => Writes[j].item # Writes[l].item
    /\ \A j \in 1..Len(add_log) :
          add_log[j].ev = "yield" =>
             IF add_log[j].status = "ok"
             THEN \E l \in 1..(j - 1) : add_log[l] = WriteNodes(add_log[j].item)
             ELSE \A l \in 1..Len(add_log) : add_log[l] # WriteNodes(add_log[j].item)

\* a stream with a valid dict, a dict that fails validation and an item that
\* is not a dict was processed to its end
C20_Witness ==
    /\ add_pc = "returned"
    /\ \E k \in 1..Len(Yielded) : Yielded[k].status = "ok"
    /\ \E k \in 1..Len(Yielded) :
          Yielded[k].status = "error" /\ IsDictItem(add_metadata[Yielded[k].item])
    /\ \E k \in 1..Len(Yielded) : Yielded[k].status = "impossible"
    /\ Len(Writes) = 1

----------------------------------------------------------------------------
(* Interrupted ingestion: runs of datalad_catalog(), one after another,    *)
(* where every write is the two steps of `with open(file, 'w') as fp:      *)
(* json.dump(obj, fp)` and a run can be stopped between any two steps      *)

IntrBatches ==
    { <<DsCoreDataset(IdD), FileRec(IdD, Ver1, <<"x">>, EmptyDict)>>,
      <<DsCoreDataset(IdD)>>,
      <<DsCoreDataset(IdD), DsCoreDataset(IdE)>>,
      <<DsCore(IdE, <<"n">>)>> }

\* a run that does not reach write_superdataset
SetupIntr(p, batch, ss) ==
    /\ Setup(p, batch, ss)
    /\ ss => pc'[p] # "process"

\* lines 177-206 and 856-859: up to open(superds_file, 'w')
OpenSuper(p, batch) ==
    /\ StartRun(p, batch, TRUE)
    /\ Cardinality(unique_blobs(dataset_records(batch))) = 1
    /\ pc' = [pc EXCEPT ![p] = "dump_super"]
    /\ printed' = [printed EXCEPT ![p] = <<MsgSuper>>]
    /\ super_json' = <<EmptyFile>>

\* line 860: json.dump(suberds_obj, f)
DumpSuper(p) ==
    /\ pc[p] = "dump_super"
    /\ super_json' = write_superdataset(dataset_records(metadata[p])[1])
    /\ pc' = [pc EXCEPT ![p] = "process"]
    /\ UNCHANGED <<metadata_dir, disk, ui_content, metadata, set_super,
                   new_obj, nruns, printed, results, pre, loaded, writer, prev,
                   treeVars, keyVars, addVars, callVars>>

\* the children file is not created
OpenChildren_nofile(p) ==
    /\ pc[p] = "write_children"
    /\ pc' = [pc EXCEPT ![p] = "write_main"]
    /\ UNCHANGED <<outVars, metadata, set_super, new_obj, nruns, printed,
                   results, pre, loaded, writer, prev,
                   treeVars, keyVars, addVars, callVars>>

\* lines 225-231: open(children_file, 'w')
OpenChildren(p) ==
    /\ pc[p] = "write_children"
    /\ disk' = Put(disk, ChildrenKey(metadata[p]), EmptyFile)
    /\ pc' = [pc EXCEPT ![p] = "dump_children"]
    /\ UNCHANGED <<metadata_dir, super_json, ui_content, metadata, set_super,
                   new_obj, nruns, printed, results, pre, loaded, writer, prev,
                   treeVars, keyVars, addVars, callVars>>

\* line 232: json.dump(children_obj, fp1)
DumpChildren(p) ==
    /\ pc[p] \in {"dump_children"}
    /\ disk' = Put(disk, ChildrenKey(metadata[p]),
                   [children |-> new_obj[p]["children"]])
    /\ writer' = Put(writer, ChildrenKey(metadata[p]), p)
    /\ pc' = [pc EXCEPT ![p] = "write_main"]
    /\ UNCHANGED <<metadata_dir, super_json, ui_content, metadata, set_super,
                   new_obj, nruns, printed, results, pre, loaded, prev,
                   treeVars, keyVars, addVars, callVars>>

\* lines 234-237: new_obj["children"] = children_hash; open(blob_file, 'w')
OpenMain(p) ==
    /\ pc[p] = "write_main"
    /\ new_obj' = [new_obj EXCEPT ![p] =
                      Put(@, "children", JStr(ChildrenKey(metadata[p])))]
    /\ disk' = Put(disk, MainKey(metadata[p]), EmptyFile)
    /\ pc' = [pc EXCEPT ![p] = "dump_main"]
    /\ UNCHANGED <<metadata_dir, super_json, ui_content, metadata, set_super,
                   nruns, printed, results, pre, loaded, writer, prev,
                   treeVars, keyVars, addVars, callVars>>

\* lines 238-242: json.dump(new_obj, fp2), then the user interface content;
\* back in Catalog.__call__ the status record of the run
DumpMain(p) ==
    /\ pc[p] = "dump_main"
    /\ disk' = Put(disk, MainKey(metadata[p]), new_obj[p])
    /\ writer' = Put(writer, MainKey(metadata[p]), p)
    /\ ui_content' = TRUE
    /\ results' = [results EXCEPT ![p] = @ \o <<[action |-> "catalog",
                                                  status |-> "ok"]>>]
    /\ pc' = [pc EXCEPT ![p] = "done"]
    /\ UNCHANGED <<metadata_dir, super_json, metadata, set_super, new_obj,
                   nruns, printed, pre, loaded, prev,
                   treeVars, keyVars, addVars, callVars>>

Running ==
    {"process", "dump_super", "write_children", "dump_children",
     "write_main", "dump_main"}

\* The run is stopped (a signal, a full disk, a power cut).  A file that
\* json.dump was writing keeps what reached it: nothing, or the first part
\* of the document.
Interrupt(p, content) ==
    /\ pc[p] \in Running
    /\ pc' = [pc EXCEPT ![p] = "interrupted"]
    /\ disk' = IF pc[p] = "dump_children"
               THEN Put(disk, ChildrenKey(metadata[p]), content)
               ELSE IF pc[p] = "dump_main"
               THEN Put(disk, MainKey(metadata[p]), content)
               ELSE disk
    /\ super_json' = IF pc[p] = "dump_super" THEN <<content>> ELSE super_json
    /\ UNCHANGED <<metadata_dir, ui_content, metadata, set_super, new_obj,
                   nruns, printed, results, pre, loaded, writer, prev,
                   treeVars, keyVars, addVars, callVars>>

NextIntr ==
    \E p \in Sequential :
        \/ \E batch \in IntrBatches, ss \in BOOLEAN : SetupIntr(p, batch, ss)
        \/ \E batch \in IntrBatches : OpenSuper(p, batch)
        \/ DumpSuper(p)
        \/ Process(p)
        \/ OpenChildren(p)
        \/ DumpChildren(p)
        \/ OpenMain(p)
        \/ DumpMain(p)
        \/ \E content \in {EmptyFile, PartialFile} : Interrupt(p, content)

SpecIntr == Init /\ [][NextIntr]_vars

\* the run of p failed or was stopped
Failed(p) == pc[p] \in {"error", "exit", "interrupted"}

\* C21: after a run that failed or was stopped, every blob file on disk is
\* a complete document: the one it held when the run started, or the one
\* the run wrote under one of its two keys
C21_AllOrNothingWrites ==
    \A p \in Sequential :
        Failed(p) =>
            \A k \in DOMAIN disk :
                /\ IsJSON(disk[k])
                /\ \/ /\ k \in DOMAIN pre[p].disk
                      /\ disk[k] = pre[p].disk[k]
                   \/ /\ HasSingleSource(metadata[p])
                      /\ k \in {MainKey(metadata[p]), ChildrenKey(metadata[p])}

\* C22: the children document is written before the main document.  When a
\* run turns to the main document its children document is on disk in full,
\* and at every point, also after a run was stopped between the two writes,
\* a main blob on disk has the children blob it refers to on disk as well.
C22_ChildrenBeforeMain ==
    /\ \A p \in Sequential :
           pc[p] = "write_main" =>
               /\ ChildrenKey(metadata[p]) \in DOMAIN disk
               /\ disk[ChildrenKey(metadata[p])] =
                      [children |-> new_obj[p]["children"]]
    /\ \A batch \in IntrBatches :
           (HasSingleSource(batch) /\ MainKey(batch) \in DOMAIN disk) =>
               /\ ChildrenKey(batch) \in DOMAIN disk
               /\ IsJSON(disk[MainKey(batch)]) =>
                      disk[MainKey(batch)]["children"] = JStr(ChildrenKey(batch))

\* one ingestion completed, and a later one for another dataset was stopped
\* between its two writes
C22_Witness ==
    \E p \in Sequential : \E batch \in IntrBatches :
        /\ pc[p] = "interrupted"
        /\ HasSingleSource(batch) /\ HasSingleSource(metadata[p])
        /\ MainKey(batch) \in DOMAIN disk
        /\ IsJSON(disk[MainKey(batch)])
        /\ ChildrenKey(batch) \in DOMAIN disk
        /\ ChildrenKey(metadata[p]) \in DOMAIN disk
        /\ IsJSON(disk[ChildrenKey(metadata[p])])
        /\ MainKey(metadata[p]) \notin DOMAIN disk

----------------------------------------------------------------------------
(* Frame of an ingestion *)

\* the two keys of the governing pair of the run of p
OwnKeys(p) ==
    IF HasSingleSource(metadata[p])
    THEN {MainKey(metadata[p]), ChildrenKey(metadata[p])}
    ELSE {}

----------------------------------------------------------------------------
(* Call specification: one call of a translation function on an input      *)
(* drawn from a set of records                                             *)

Letters == <<"a", "b", "c", "d", "e", "f", "g">>

\* a string of n characters
Word(n) == [i \in 1..n |-> Letters[((i - 1) % Len(Letters)) + 1]]

\* a key that is absent, or present with one of the values
Opt(key, values) == {EmptyDict} \cup {Put(EmptyDict, key, v) : v \in values}

AmfNames == {Word(n) : n \in {0, 1, 29, 30, 31, 34}}

AmfPaths ==
    { <<"n">>, <<"r", "/", "n">>, <<"r", "/">>, <<"r", "/">> \o Word(31),
      Word(30) }

\* dataset objects as process_dataset hands them to add_missing_fields
AmfInputs ==
    {a @@ b @@ c : a \in Opt("name", AmfNames),
                   b \in Opt("dataset_path", AmfPaths),
                   c \in Opt("short_name", { <<"s">> })}


\* a dataset-level record of the metalad_core extractor whose Dataset item
\* lists one subdataset
DsPart(identifier, version) ==
    [type |-> "dataset", dataset_id |-> IdD, dataset_version |-> Ver1,
     extractor_name |-> "metalad_core",
     extracted_metadata |->
        ("@graph" :>
          << ("@type" :> "Dataset")
             @@ ("hasPart" :>
                  << ("identifier" :> identifier)
                     @@ ("@id" :> version)
                     @@ ("name" :> <<"n">>) >>) >>)]

\* identifiers and versions as the extractor writes them and as they can
\* come: hexadecimal digits after the prefix "datalad:", or no prefix
PartStrings ==
    { STRIPDATALAD \o <<"5", "f">>,
      STRIPDATALAD \o <<"5", "d">>,
      STRIPDATALAD \o <<"a", "5">>,
      STRIPDATALAD \o <<"d", "a", "d">>,
      STRIPDATALAD,
      <<"5", "f">>,
      <<"d", "5", "a">>,
      <<"5", ":">>,
      <<"x">> \o STRIPDATALAD \o <<"5">>,
      STRIPDATALAD \o STRIPDATALAD \o <<"5">> }

CpdInputs == {DsPart(i, v) : i \in PartStrings, v \in PartStrings}


\* references to persons, and entries of the person list
Ref(id) == ("@id" :> id)
Person(id) == ("@id" :> id) @@ ("name" :> <<id>>)

\* A record of the metalad_studyminimeta extractor.  The person list and
\* the publication list are << >> when the graph has no such object, else
\* <<the list>>; the publication list holds the author references of its
\* one publication.
StudyRecord(authors, persons, pub_authors) ==
    [type |-> "dataset", dataset_id |-> IdD, dataset_version |-> Ver1,
     extractor_name |-> "metalad_studyminimeta",
     extracted_metadata |->
        ("@graph" :>
          (<< ("@type" :> "CreativeWork") @@ ("name" :> <<"S">>),
              ("@type" :> "Dataset") @@ ("description" :> <<"i">>)
                 @@ ("author" :> authors) >>
           \o (IF Len(persons) = 1
               THEN << ("@id" :> "#personList") @@ ("@list" :> persons[1]) >>
               ELSE <<>>)
           \o (IF Len(pub_authors) = 1
               THEN << ("@id" :> "#publicationList")
                       @@ ("@list" :>
                             << ("@id" :> "b1") @@ ("@type" :> "Article")
                                @@ ("author" :> pub_authors[1]) >>) >>
               ELSE <<>>)))]

SmpAuthors ==
    { <<>>, <<Ref("p1")>>, <<Ref("p1"), Ref("p2")>>, <<Ref("p2"), Ref("p1")>>,
      <<Ref("p3")>> }

SmpPersons ==
    { <<>>, << <<>> >>, << <<Person("p1")>> >>,
      << <<Person("p1"), Person("p2")>> >> }

SmpPubAuthors ==
    { <<>>, << <<>> >>, << <<Ref("p1")>> >>, << <<Ref("p2"), Ref("p1")>> >> }

SmpInputs ==
    {StudyRecord(a, l, b) : a \in SmpAuthors, l \in SmpPersons,
                            b \in SmpPubAuthors}


----------------------------------------------------------------------------
(* Translation of bids_dataset records                                     *)
(* (src/datalad_catalog/translators/bids_dataset_translator.py)            *)
(* The result of a jq program is << >> for null and <<v>> for the value v; *)
(* the same for None and a value in Python.                                *)

\* jq: .key
jq_get(obj, key) == IF key \in DOMAIN obj THEN <<obj[key]>> ELSE <<>>

\* jq: .a.b, null when .a is null
jq_path(obj, a, b) ==
    IF Len(jq_get(obj, a)) = 0 THEN <<>> ELSE jq_get(obj[a], b)

\* jq: x + y on arrays, null is neutral
jq_add(x, y) ==
    IF Len(x) = 0 THEN y ELSE IF Len(y) = 0 THEN x ELSE <<x[1] \o y[1]>>

\* jq: x | length, 0 for null
jq_length(x) == IF Len(x) = 0 THEN 0 ELSE Len(x[1])

\* `return result if len(result) > 0 else None` for a list
nonempty_or_None(result) == IF Len(result) > 0 THEN <<result>> ELSE <<>>

\* extracted_metadata.get("title", "")
get_name(extracted_metadata) ==
    IF "title" \in DOMAIN extracted_metadata
    THEN <<extracted_metadata["title"]>> ELSE << <<>> >>

\* extracted_metadata.get("description")
get_description(extracted_metadata) == jq_get(extracted_metadata, "description")

\* [.Authors[]? as $auth | {...}]
get_authors(extracted_metadata) ==
    LET names == IF "Authors" \in DOMAIN extracted_metadata
                 THEN extracted_metadata["Authors"] ELSE <<>>
    IN  nonempty_or_None(
            [i \in 1..Len(names) |->
                [name |-> names[i], givenName |-> <<>>, familyName |-> <<>>,
                 email |-> <<>>, honorificSuffix |-> <<>>, identifiers |-> <<>>]])

\* .entities.task + .variables.dataset
keywords_program(extracted_metadata) ==
    jq_add(jq_path(extracted_metadata, "entities", "task"),
           jq_path(extracted_metadata, "variables", "dataset"))

\* len(None) raises TypeError
get_keywords_raises(extracted_metadata) ==
    Len(keywords_program(extracted_metadata)) = 0

get_keywords(extracted_metadata) ==
    nonempty_or_None(keywords_program(extracted_metadata)[1])

\* [.Funding[]? as $fund | {...}]
get_funding(extracted_metadata) ==
    LET funds == IF "Funding" \in DOMAIN extracted_metadata
                 THEN extracted_metadata["Funding"] ELSE <<>>
    IN  nonempty_or_None(
            [i \in 1..Len(funds) |->
                [name |-> <<>>, grant |-> <<>>, description |-> funds[i]]])

get_metadata_source(metadata_record) ==
    << [key_source_map |-> EmptyDict,
        sources |->
          << [source_name      |-> jq_get(metadata_record, "extractor_name"),
              source_version   |-> jq_get(metadata_record, "extractor_version"),
              source_parameter |-> jq_get(metadata_record, "extraction_parameter"),
              source_time      |-> jq_get(metadata_record, "extraction_time"),
              agent_email      |-> jq_get(metadata_record, "agent_email"),
              agent_name       |-> jq_get(metadata_record, "agent_name")] >>] >>

\* [{"name": "BIDS", "content": .entities}]
get_additional_display(extracted_metadata) ==
    nonempty_or_None(
        << [name |-> "BIDS", content |-> jq_get(extracted_metadata, "entities")] >>)

get_top_display(extracted_metadata) ==
    LET count(entity) == jq_length(jq_path(extracted_metadata, "entities", entity))
    IN  nonempty_or_None(
            << [name |-> "Subjects", value |-> count("subject")],
               [name |-> "Sessions", value |-> count("session")],
               [name |-> "Tasks", value |-> count("task")],
               [name |-> "Runs", value |-> count("run")] >>)

\* BIDSTranslator.translate raises
translate_raises(metadata_record) ==
    get_keywords_raises(metadata_record["extracted_metadata"])

\* BIDSTranslator.translate: the fields, and the ones that are not None
translate(metadata_record) ==
    LET em == metadata_record["extracted_metadata"]
        translated_record ==
            [type               |-> <<metadata_record["type"]>>,
             dataset_id         |-> <<metadata_record["dataset_id"]>>,
             dataset_version    |-> <<metadata_record["dataset_version"]>>,
             name               |-> get_name(em),
             description        |-> get_description(em),
             authors            |-> get_authors(em),
             keywords           |-> get_keywords(em),
             funding            |-> get_funding(em),
             metadata_sources   |-> get_metadata_source(metadata_record),
             additional_display |-> get_additional_display(em),
             top_display        |-> get_top_display(em)]
    IN  [k \in {key \in DOMAIN translated_record :
                   Len(translated_record[key]) = 1} |-> translated_record[k][1]]

\* records of the bids_dataset extractor
BidsMetadata ==
    {("@graph" :> <<>>) @@ t @@ d @@ a @@ f @@ e @@ v :
        t \in Opt("title", { <<"T">>, <<>> }),
        d \in Opt("description", { <<"D">>, <<>> }),
        a \in Opt("Authors", { <<>>, << <<"A">> >> }),
        f \in Opt("Funding", { << <<"F">> >> }),
        e \in Opt("entities", { EmptyDict, [task |-> <<>>],
                                [task |-> << <<"t">> >>,
                                 subject |-> << <<"1">>, <<"2">> >>] }),
        v \in Opt("variables", { [dataset |-> << <<"v">> >>] })}

BidsInputs ==
    {[type |-> "dataset", dataset_id |-> IdD, dataset_version |-> Ver1,
      extractor_name |-> "bids_dataset", extracted_metadata |-> em] :
        em \in BidsMetadata}

CallInputs(f) ==
    IF f = "add_missing_fields" THEN {<<x>> : x \in AmfInputs}
    ELSE IF f = "core_parse_dataset"
    THEN {<<x, EmptyDict, core_schema_for_dataset>> : x \in CpdInputs}
    ELSE IF f = "studyminimeta_parse"
    THEN {<<x, EmptyDict, studyminimeta_schema>> : x \in SmpInputs}
    ELSE IF f = "translate" THEN {<<x>> : x \in BidsInputs}
    ELSE {}

Callees ==
    {"add_missing_fields", "core_parse_dataset", "studyminimeta_parse",
     "translate"}

InitCall ==
    /\ callee \in Callees
    /\ call_args \in CallInputs(callee)
    /\ call_result = <<>>
    /\ InitRuns
    /\ TreeIdle
    /\ KeyIdle
    /\ AddIdle

CallAddMissingFields ==
    /\ callee = "add_missing_fields"
    /\ call_result = <<>>
    /\ call_result' = <<Returned(add_missing_fields(call_args[1]))>>
    /\ UNCHANGED <<callee, call_args, treeVars, keyVars, outVars, runVars,
                   addVars>>

CallCoreParseDataset ==
    /\ callee = "core_parse_dataset"
    /\ call_result = <<>>
    /\ call_result' = <<Returned(core_parse_dataset(call_args[1], call_args[2],
                                                    call_args[3]))>>
    /\ UNCHANGED <<callee, call_args, treeVars, keyVars, outVars, runVars,
                   addVars>>

CallStudyminimetaParse ==
    /\ callee = "studyminimeta_parse"
    /\ call_result = <<>>
    /\ call_result' =
          IF studyminimeta_raises(call_args[1], call_args[2], call_args[3])
          THEN <<Raised>>
          ELSE <<Returned(studyminimeta_parse(call_args[1], call_args[2],
                                             call_args[3]))>>
    /\ UNCHANGED <<callee, call_args, treeVars, keyVars, outVars, runVars,
                   addVars>>

CallTranslate ==
    /\ callee = "translate"
    /\ call_result = <<>>
    /\ call_result' = IF translate_raises(call_args[1]) THEN <<Raised>>
                      ELSE <<Returned(translate(call_args[1]))>>
    /\ UNCHANGED <<callee, call_args, treeVars, keyVars, outVars, runVars,
                   addVars>>

NextCall ==
    \/ CallAddMissingFields
    \/ CallCoreParseDataset
    \/ CallStudyminimetaParse
    \/ CallTranslate

SpecCall == InitCall /\ [][NextCall]_vars

\* the call of f returned
CallReturned(f) ==
    callee = f /\ Len(call_result) = 1 /\ call_result[1].ok

\* the characters of a path after its last separator
RECURSIVE LastSegment(_)
LastSegment(path) ==
    IF Len(path) = 0 \/ path[Len(path)] = "/" THEN <<>>
    ELSE Append(LastSegment(SubSeq(path, 1, Len(path) - 1)), path[Len(path)])

\* C24: after add_missing_fields, an object that had no name but has a
\* dataset_path has the last segment of the path as its name; an object
\* that had no short_name and has a name has the name as its short_name,
\* cut to its first 30 characters followed by "..." when it is longer
\* than 30; a name or short_name that was present is unchanged.
C24_NameDefaulting ==
    CallReturned("add_missing_fields") =>
        LET before == call_args[1]
            after  == call_result[1].obj
        IN  /\ ("name" \notin DOMAIN before /\ "dataset_path" \in DOMAIN before)
                  => after["name"] = LastSegment(before["dataset_path"])
            /\ ("short_name" \notin DOMAIN before
                   /\ DOMAIN before \cap {"name", "dataset_path"} # {})
                  => after["short_name"] =
                         IF Len(after["name"]) > 30
                         THEN SubSeq(after["name"], 1, 30) \o <<".", ".", ".">>
                         ELSE after["name"]
            /\ "name" \in DOMAIN before => after["name"] = before["name"]
            /\ "short_name" \in DOMAIN before
                  => after["short_name"] = before["short_name"]

\* a name of more than 30 characters was taken from the path and cut
C24_Witness ==
    /\ CallReturned("add_missing_fields")
    /\ DOMAIN call_args[1] = {"dataset_path"}
    /\ Len(call_result[1].obj["name"]) = 31
    /\ Len(call_result[1].obj["short_name"]) = 33

\* a string without the literal prefix, when it starts with it
RemovePrefix(s, prefix) ==
    IF Len(s) >= Len(prefix) /\ SubSeq(s, 1, Len(prefix)) = prefix
    THEN SubSeq(s, Len(prefix) + 1, Len(s))
    ELSE s

\* the hasPart entries of the Dataset item of a record
HasPart(src_object) == src_object["extracted_metadata"]["@graph"][1]["hasPart"]

\* C25: for every hasPart entry, the subdataset reference that
\* core_parse_dataset produces has as dataset_id and dataset_version the
\* identifier and the @id of the entry without the literal prefix
\* "datalad:", every other character kept
C25_LiteralPrefixStripping ==
    CallReturned("core_parse_dataset") =>
        LET parts == HasPart(call_args[1])
            subds == call_result[1].obj["subdatasets"]
        IN  /\ Len(subds) = Len(parts)
            /\ \A i \in 1..Len(parts) :
                   /\ subds[i].dataset_id =
                          RemovePrefix(parts[i]["identifier"], STRIPDATALAD)
                   /\ subds[i].dataset_version =
                          RemovePrefix(parts[i]["@id"], STRIPDATALAD)

\* the entries of the person list of a record, none when there is no list
PersonsOf(src_object) ==
    LET graph == src_object["extracted_metadata"]["@graph"]
        lists == SelectSeq(graph, LAMBDA item :
                     "@id" \in DOMAIN item /\ item["@id"] = "#personList")
    IN  IF Len(lists) = 0 THEN <<>> ELSE lists[1]["@list"]

\* the author references of the publications of a record
PubAuthorsOf(src_object) ==
    LET graph == src_object["extracted_metadata"]["@graph"]
        lists == SelectSeq(graph, LAMBDA item :
                     "@id" \in DOMAIN item /\ item["@id"] = "#publicationList")
    IN  IF Len(lists) = 0 THEN <<>>
        ELSE [i \in 1..Len(lists[1]["@list"]) |-> lists[1]["@list"][i]["author"]]

\* the references with an entry in the person list, each replaced by its
\* entry; the others are left out
Resolved(refs, persons) ==
    LET known(r) == \E j \in 1..Len(persons) : persons[j]["@id"] = r["@id"]
        kept     == SelectSeq(refs, known)
    IN  [i \in 1..Len(kept) |->
            persons[CHOOSE j \in 1..Len(persons) :
                        /\ persons[j]["@id"] = kept[i]["@id"]
                        /\ \A h \in 1..(j - 1) : persons[h]["@id"] # kept[i]["@id"]]]

\* C26: studyminimeta_parse does not abort on an author reference that has
\* no entry in the person list, also when the record has no person list at
\* all; the authors of the dataset and the authors of every publication in
\* the output are the entries of the references that resolve, the others
\* are left out
C26_UnresolvablePersons ==
    (callee = "studyminimeta_parse" /\ Len(call_result) = 1) =>
        /\ call_result[1].ok
        /\ call_result[1].obj["authors"] =
               Resolved(call_args[1]["extracted_metadata"]["@graph"][2]["author"],
                        PersonsOf(call_args[1]))
        /\ LET refs == PubAuthorsOf(call_args[1])
               pubs == call_result[1].obj["publications"]
           IN  /\ Len(pubs) = Len(refs)
               /\ \A i \in 1..Len(refs) :
                      pubs[i]["author"] = Resolved(refs[i], PersonsOf(call_args[1]))

\* C27: BIDSTranslator.translate returns, for every input record, a record
\* with the type, dataset_id and dataset_version of the input and without
\* any key whose value is empty (None, an empty string, an empty collection)
C27_NoEmptyValues ==
    (callee = "translate" /\ Len(call_result) = 1) =>
        /\ call_result[1].ok
        /\ LET record == call_args[1]
               out    == call_result[1].obj
           IN  /\ {"type", "dataset_id", "dataset_version"} \subseteq DOMAIN out
               /\ out["type"] = record["type"]
               /\ out["dataset_id"] = record["dataset_id"]
               /\ out["dataset_version"] = record["dataset_version"]
               /\ \A k \in DOMAIN out \ {"type", "metadata_sources"} :
                      Len(out[k]) > 0
               /\ "metadata_sources" \in DOMAIN out
                      => DOMAIN out["metadata_sources"] # {}

====
